---- MODULE Spec2Model ----
(***************************************************************************)
(* A state-machine model of the utilities of rotem-ai-demo:                 *)
(* src/utils/CircuitBreaker.ts, src/utils/RateLimiter.ts,                  *)
(* src/utils/RetryHandler.ts, src/utils/EventEmitter.ts,                   *)
(* src/database/Database.ts and the Cache.                                 *)
(*                                                                         *)
(* Time is the value of Date.now(), advanced by the action Tick.  Every    *)
(* other action is one synchronous run of JavaScript between two           *)
(* suspension points: a public method call up to its first await, or the   *)
(* continuation that runs when an awaited promise settles.                 *)
(***************************************************************************)
EXTENDS Integers, Sequences, FiniteSets, TLC

(* ------------------------------ bounds -------------------------------- *)

\* Largest failureThreshold / successThreshold option the model constructs.
MaxThreshold == 2
\* Last clock value.
MaxTime == 3
\* Number of execute calls made on the breaker in one behaviour.
MaxCalls == 4
\* Number of execute calls that may be awaiting their operation at once.
MaxInFlight == 2
\* The timeout option (per-call timeout) the breaker is constructed with.
Timeout == 1
\* The resetTimeout option the breaker is constructed with.
ResetTimeout == 2

\* Largest maxTokens option the model constructs.
MaxCapacity == 1
\* Number of callers that may be inside acquire or execute at once.
MaxCallers == 2
\* Last clock value of the specifications that follow one limiter for more
\* than a second.
MaxLongTime == 12

\* Largest maxRetries option the model constructs.
MaxRetries == 2
\* Last clock value of the specification of the RetryHandler.
MaxRetryTime == 6

\* Last clock value of the specification that follows the breaker through
\* two open periods.
MaxRecoveryTime == 6

\* Number of Database calls that may be awaiting their delay at once.
MaxPending == 2

\* Largest maxSize option the model constructs for the Cache.
MaxCacheSize == 2
\* Number of get calls (hits and misses) counted on the Cache in one
\* behaviour.
MaxLookups == 1
\* The ttl option the Cache is constructed with, in clock steps.
CacheTtl == 1
\* Last clock value of the specification of the Cache.
MaxCacheTime == 2

\* Number of emit calls that may be awaiting their listeners at once.
MaxEmits == 2
\* Largest maxListeners argument the model constructs.
MaxListeners == 2

\* The clock of the model counts steps of TickMs milliseconds, the polling
\* sleep of RateLimiter.acquire: a sleep(100) that starts in one clock step
\* is over in the next.  The limiter is constructed with refillInterval =
\* TickMs.  refill divides the milliseconds by MsPerSecond.
TickMs == 100
MsPerSecond == 1000
TicksPerSecond == MsPerSecond \div TickMs
\* The refillRate options (tokens per second) the model constructs: one
\* whose refills are exact in binary floating point (5 * 0.1 = 0.5) and one
\* whose refills are rounded (1 * 0.1).
Rates == {1, 5}
\* The initialDelay and maxDelay options (ms) and the exponentialBase
\* options the model constructs: delays that stay below maxDelay and delays
\* that reach it, and a base below 1.
InitialDelays == {0, TickMs, 2 * TickMs}
MaxDelays == {TickMs, 3 * TickMs}
Bases == {0, 1, 2}

VARIABLES
    now,               \* Date.now()
    ret,               \* what the last step was and how the call it served ended
    \* ---- CircuitBreaker fields
    state,
    failureCount,
    successCount,
    nextAttempt,
    failureThreshold,
    successThreshold,
    \* ---- CircuitBreaker environment
    racing,            \* the execute calls awaiting Promise.race: for each, in
                       \* the order of the calls, the time its timer is due
    abandoned,         \* operations still pending after their call timed out
    nCalls,            \* execute calls made so far
    invoked,           \* times the wrapped operation fn was invoked
    notes,             \* onStateChange(from, to) calls made by the last step
    seen,              \* the fields as each of these calls found them
    applied,           \* times onSuccess or onFailure ran
    \* ---- history kept for the properties
    streak,            \* failed calls completed since the last success or reset
    hoSucc,            \* successful calls completed in HALF_OPEN since it was
                       \* last entered
    trials,            \* operations invoked since HALF_OPEN was entered,
                       \* the one of the entering call included; 0 outside
                       \* HALF_OPEN
    openedBy,          \* what caused the last change of state to OPEN
    \* ---- RateLimiter fields
    maxTokens,
    refillRate,
    tokens,            \* a double, see Double below
    lastRefill,
    intervalId,        \* TRUE when set
    \* ---- RateLimiter environment
    timers,            \* the live setInterval timers: for each, whether its
                       \* interval has elapsed
    callers,           \* the callers suspended in acquire or execute: how
                       \* many there are of each of CallerStates
    \* ---- history kept for the properties
    granted,           \* the tokens granted since the limiter was constructed,
                       \* or NotMetered
    \* ---- a second RateLimiter, kept by the actions of SpecTwin
    twin,              \* its tokens and lastRefill, and what its last call
                       \* returned
    mark,              \* the token count of the first limiter after its last
                       \* acquisition, and the time of it
    \* ---- RetryHandler fields
    maxRetries,
    initialDelay,
    maxDelay,
    exponentialBase,
    shouldRetry,       \* "default" for () => true, "custom" for an option
                       \* that accepts some errors and refuses others
    onRetry,           \* TRUE when the option is given
    \* ---- the execute call on the RetryHandler: its locals
    attempt,
    lastError,
    \* ---- RetryHandler environment
    rhPc,              \* where the call is: "idle" (no call, or the call is
                       \* over), "awaiting" (await fn()), "sleeping"
    wakeAt,            \* the time, in ms, the timer of sleep is due
    promise,           \* the promise execute returned to its caller
    \* ---- history of the execute call, kept for the properties
    started,           \* the times fn was invoked
    outcomes,          \* how each invocation of fn that is over ended
    asked,             \* the shouldRetry(error) calls
    retried,           \* the onRetry(attempt, error) calls
    slept,             \* the delays passed to sleep
    \* ---- the last executeSync call on the RetryHandler
    sync,              \* what fn did in it, what the call did and how it
                       \* ended
    \* ---- a second execute call on the RetryHandler
    peer,              \* its locals, its promise and its history
    \* ---- Database fields
    tables,            \* table name -> reference to the Map of its records
    connected,
    transactionActive,
    transactionBackup,
    \* ---- Database environment
    maps,              \* the Map objects: reference -> (record id -> record)
    pending,           \* the calls awaiting their delay, in the order made
    \* ---- history kept for the properties
    atBegin,           \* the tables and their records at the last
                       \* beginTransaction
    openTxns,          \* transactions begun and neither committed nor
                       \* rolled back
    undone,            \* whether the last rollback found tables or records
                       \* other than those of atBegin
    \* ---- Cache fields
    cache,             \* the Map, as its entries in insertion order
    defaultTTL,
    maxSize,
    hits,
    misses,
    \* ---- EventEmitter fields
    events,            \* event -> the Set of its listeners
    onceEvents,        \* event -> the Set of its once listeners
    maxListeners,
    \* ---- EventEmitter environment
    emits,             \* the emit calls awaiting their listeners
    \* ---- history kept for the properties
    onceCalls,         \* once listener -> number of times emit or emitSync
                       \* invoked it
    missed             \* whether the last emit to return left out a once
                       \* listener registered when it started

cbFields == <<state, failureCount, successCount, nextAttempt>>
cbConfig == <<failureThreshold, successThreshold>>
cbEnv == <<racing, abandoned, nCalls, invoked, notes, seen, applied>>
cbHist == <<streak, hoSucc, trials, openedBy>>
cbVars == <<cbFields, cbConfig, cbEnv, cbHist>>

rlFields == <<tokens, lastRefill, intervalId>>
rlConfig == <<maxTokens, refillRate>>
rlEnv == <<timers, callers>>
rlHist == <<granted>>
rlVars == <<rlFields, rlConfig, rlEnv, rlHist>>
twVars == <<twin, mark>>

rhConfig == <<maxRetries, initialDelay, maxDelay, exponentialBase,
              shouldRetry, onRetry>>
rhCall == <<attempt, lastError, rhPc, wakeAt, promise>>
rhHist == <<started, outcomes, asked, retried, slept>>
rhVars == <<rhConfig, rhCall, rhHist, sync, peer>>

dbFields == <<tables, connected, transactionActive, transactionBackup>>
dbEnv == <<maps, pending>>
dbHist == <<atBegin, openTxns, undone>>
dbVars == <<dbFields, dbEnv, dbHist>>

caFields == <<cache, hits, misses>>
caConfig == <<defaultTTL, maxSize>>
caVars == <<caFields, caConfig>>

eeFields == <<events, onceEvents>>
eeVars == <<eeFields, maxListeners, emits, onceCalls, missed>>

\* The classes besides the three resilience utilities.
appVars == <<dbVars, caVars, eeVars>>

vars == <<now, ret, cbVars, rlVars, twVars, rhVars, appVars>>

CircuitState == {"CLOSED", "OPEN", "HALF_OPEN"}

\* The last step: the operation, how it ended, and the number that goes with
\* it (the tokens asked for, or the value returned).
RetN(op, outcome, n) == [op |-> op, outcome |-> outcome, n |-> n]
Ret(op, outcome) == RetN(op, outcome, 0)

Min(a, b) == IF a <= b THEN a ELSE b

(* ------------------------- JavaScript numbers ------------------------- *)

\* The token count of the limiter is a JavaScript number, an IEEE-754
\* double.  A double x is held exactly, as the integer x * 2^56 written in
\* three limbs <<h, m, l>>: x * 2^56 = (h * Limb + m) * Limb + l with
\* 0 <= m, l < Limb, the sign being that of h.  Every number the limiter
\* computes from whole milliseconds in multiples of TickMs, whole rates and
\* whole token requests is a multiple of 2^-56 (the spacing of the doubles
\* between 1/16 and 1/8, where 100/1000 lies), so nothing is lost.
Limb == 2^20
\* The double 1 is <<UnitLimb, 0, 0>>.
UnitLimb == 2^16
\* A number with h < Precise has at most 53 significant bits.
Precise == 2^13

Number == Int \X Int \X Int

\* (h * Limb + m) * Limb + l, brought to 0 <= m, l < Limb.
Carry ==
    [h \in Int, m \in Int, l \in Int |->
        LET m1 == m + (IF l >= 0 THEN l \div Limb
                       ELSE -((Limb - 1 - l) \div Limb))
            h1 == h + (IF m1 >= 0 THEN m1 \div Limb
                       ELSE -((Limb - 1 - m1) \div Limb))
        IN  <<h1, m1 % Limb, l % Limb>>]

\* The double of a whole number.
FromInt == [n \in Int |-> <<n * UnitLimb, 0, 0>>]

\* The exact sum, difference, and product by a whole number.
Plus ==
    [x \in Number, y \in Number |->
        Carry[x[1] + y[1], x[2] + y[2], x[3] + y[3]]]
Minus ==
    [x \in Number, y \in Number |->
        Carry[x[1] - y[1], x[2] - y[2], x[3] - y[3]]]
Times ==
    [x \in Number, r \in Int |-> Carry[x[1] * r, x[2] * r, x[3] * r]]

\* x >= y
Geq == [x \in Number, y \in Number |-> Minus[x, y][1] >= 0]

\* Math.min
MinD == [x \in Number, y \in Number |-> IF Geq[y, x] THEN x ELSE y]

\* Math.floor
Floor ==
    [x \in Number |->
        IF x[1] >= 0 THEN x[1] \div UnitLimb
        ELSE -((UnitLimb - 1 - x[1]) \div UnitLimb)]

\* The weight, in units of 2^-56, of the last of the 53 significant bits of
\* a number whose first limb is h.
RECURSIVE Ulp(_)
Ulp(h) == IF h < Precise THEN 1 ELSE 2 * Ulp(h \div 2)

\* The double nearest to the exact value x + num/den units (0 <= num < den,
\* x >= 0): round to nearest, ties to even, as every arithmetic operation
\* of JavaScript does.
Round ==
    [x \in Number, num \in Nat, den \in Nat |->
        IF x[1] < Precise /\ num = 0
        THEN x
        ELSE LET u == Ulp(x[1])
                 r == x[3] % u
                 down == <<x[1], x[2], x[3] - r>>
                 odd == (x[3] \div u) % 2 = 1
                 up == \/ 2 * r > u
                       \/ 2 * r = u /\ (num > 0 \/ odd)
                       \/ u = 1 /\ (2 * num > den \/ (2 * num = den /\ odd))
             IN  IF up THEN Plus[down, <<0, 0, u>>] ELSE down]

\* timePassed / 1000, for timePassed a whole number of milliseconds: the
\* long division of timePassed * 2^56 by 1000, rounded.
Seconds ==
    [ms \in Nat |->
        LET h == ms * UnitLimb
            q1 == h \div MsPerSecond
            r1 == h % MsPerSecond
            q2 == (r1 * Limb) \div MsPerSecond
            r2 == (r1 * Limb) % MsPerSecond
            q3 == (r2 * Limb) \div MsPerSecond
            r3 == (r2 * Limb) % MsPerSecond
        IN  Round[<<q1, q2, q3>>, r3, MsPerSecond]]

\* x + y, x - y and x * r as JavaScript computes them.
AddD == [x \in Number, y \in Number |-> Round[Plus[x, y], 0, 1]]
SubD == [x \in Number, y \in Number |-> Round[Minus[x, y], 0, 1]]
MulD == [x \in Number, r \in Int |-> Round[Times[x, r], 0, 1]]

(* --------------------------- CircuitBreaker --------------------------- *)

\* The breaker as one handler sees it at its start: the fields, the
\* notifications it has made so far (none) and the outcomes applied so far.
Breaker ==
    [state |-> state, failureCount |-> failureCount,
     successCount |-> successCount, nextAttempt |-> nextAttempt,
     notes |-> <<>>, seen |-> <<>>, applied |-> applied]

Commit(b) ==
    /\ state' = b.state
    /\ failureCount' = b.failureCount
    /\ successCount' = b.successCount
    /\ nextAttempt' = b.nextAttempt
    /\ notes' = b.notes
    /\ seen' = b.seen
    /\ applied' = b.applied

\* The fields of the breaker as a callback running now finds them.
Fields(b) ==
    [state |-> b.state, failureCount |-> b.failureCount,
     successCount |-> b.successCount, nextAttempt |-> b.nextAttempt]

\* Mutant of SetState: notifies without comparing the old and the new state.
SetStateAlwaysNotifies(b, newState) ==
    [b EXCEPT !.state = newState, !.notes = Append(@, <<b.state, newState>>),
              !.seen = Append(@, Fields([b EXCEPT !.state = newState]))]

\* setState: assigns and notifies only when the state changes.
SetState(b, newState) ==
    IF b.state # newState
    THEN [b EXCEPT !.state = newState,
                   !.notes = Append(@, <<b.state, newState>>),
                   !.seen = Append(@, Fields([b EXCEPT !.state = newState]))]
    ELSE b

\* Mutant of OnSuccess: closes only when the count exceeds successThreshold.
OnSuccessStrict(b) ==
    LET b1 == [b EXCEPT !.failureCount = 0, !.applied = @ + 1]
        b2 == [b1 EXCEPT !.successCount = @ + 1]
    IN  IF b1.state = "HALF_OPEN"
        THEN IF b2.successCount > successThreshold
             THEN [SetState(b2, "CLOSED") EXCEPT !.successCount = 0]
             ELSE b2
        ELSE b1

\* Mutant of OnSuccess: successes are counted in every state but CLOSED.
OnSuccessWhileOpen(b) ==
    LET b1 == [b EXCEPT !.failureCount = 0, !.applied = @ + 1]
        b2 == [b1 EXCEPT !.successCount = @ + 1]
    IN  IF b1.state # "CLOSED"
        THEN IF b2.successCount >= successThreshold
             THEN [SetState(b2, "CLOSED") EXCEPT !.successCount = 0]
             ELSE b2
        ELSE b1

\* Mutant of OnSuccess: successCount is not zeroed when the breaker closes.
OnSuccessKeepsCount(b) ==
    LET b1 == [b EXCEPT !.failureCount = 0, !.applied = @ + 1]
        b2 == [b1 EXCEPT !.successCount = @ + 1]
    IN  IF b1.state = "HALF_OPEN"
        THEN IF b2.successCount >= successThreshold
             THEN SetState(b2, "CLOSED")
             ELSE b2
        ELSE b1

\* onSuccess
OnSuccess(b) ==
    LET b1 == [b EXCEPT !.failureCount = 0, !.applied = @ + 1]
        b2 == [b1 EXCEPT !.successCount = @ + 1]
    IN  IF b1.state = "HALF_OPEN"
        THEN IF b2.successCount >= successThreshold
             THEN [SetState(b2, "CLOSED") EXCEPT !.successCount = 0]
             ELSE b2
        ELSE b1

\* Mutant of OnFailure: opens only when the count exceeds failureThreshold.
OnFailureStrict(b) ==
    LET b1 == [b EXCEPT !.failureCount = @ + 1, !.successCount = 0,
                        !.applied = @ + 1]
    IN  IF b1.state = "HALF_OPEN"
        THEN [SetState(b1, "OPEN") EXCEPT !.nextAttempt = now + ResetTimeout]
        ELSE IF b1.failureCount > failureThreshold
             THEN [SetState(b1, "OPEN") EXCEPT !.nextAttempt = now + ResetTimeout]
             ELSE b1

\* Mutant of OnFailure: leaves successCount as it is.
OnFailureKeepsSuccesses(b) ==
    LET b1 == [b EXCEPT !.failureCount = @ + 1, !.applied = @ + 1]
    IN  IF b1.state = "HALF_OPEN"
        THEN [SetState(b1, "OPEN") EXCEPT !.nextAttempt = now + ResetTimeout]
        ELSE IF b1.failureCount >= failureThreshold
             THEN [SetState(b1, "OPEN") EXCEPT !.nextAttempt = now + ResetTimeout]
             ELSE b1

\* onFailure
OnFailure(b) ==
    LET b1 == [b EXCEPT !.failureCount = @ + 1, !.successCount = 0,
                        !.applied = @ + 1]
    IN  IF b1.state = "HALF_OPEN"
        THEN [SetState(b1, "OPEN") EXCEPT !.nextAttempt = now + ResetTimeout]
        ELSE IF b1.failureCount >= failureThreshold
             THEN [SetState(b1, "OPEN") EXCEPT !.nextAttempt = now + ResetTimeout]
             ELSE b1

\* Mutant of CircuitOpen: the comparison with nextAttempt is inverted.
CircuitOpenInverted == state = "OPEN" /\ now > nextAttempt

\* Mutant of CircuitOpen: a call made exactly at nextAttempt is still rejected.
CircuitOpenInclusive == state = "OPEN" /\ now <= nextAttempt

\* execute: the guard under which the call is rejected without running fn.
CircuitOpen == state = "OPEN" /\ now < nextAttempt

\* The sequence s without its i-th element.
RemoveAt(s, i) == [j \in 1..(Len(s) - 1) |-> IF j < i THEN s[j] ELSE s[j + 1]]

\* Calls whose fn has been invoked and has not settled yet.
InFlight == Len(racing) + abandoned

\* What the history variables become in a step that takes the breaker from
\* state to state' with the call outcome `outcome'.
History(outcome, cause) ==
    /\ streak' = CASE outcome = "failure" -> streak + 1
                   [] outcome \in {"success", "reset"} -> 0
                   [] OTHER -> streak
    /\ hoSucc' = IF state # "HALF_OPEN" /\ state' = "HALF_OPEN" THEN 0
                 ELSE IF state = "HALF_OPEN" /\ outcome = "success" THEN hoSucc + 1
                 ELSE hoSucc
    /\ trials' = IF state' # "HALF_OPEN" THEN 0
                 ELSE IF ret' # Ret("execute", "pending") THEN trials
                 ELSE IF state = "HALF_OPEN" THEN trials + 1
                 ELSE 1
    /\ openedBy' = IF state # "OPEN" /\ state' = "OPEN" THEN cause ELSE openedBy

\* Mutant of ExecuteRejected: the rejection is counted as a failure.
ExecuteRejectedCounted ==
    /\ nCalls < MaxCalls
    /\ CircuitOpen
    /\ nCalls' = nCalls + 1
    /\ ret' = Ret("execute", "circuitOpen")
    /\ Commit(OnFailure(Breaker))
    /\ History("none", "none")
    /\ UNCHANGED <<now, cbConfig, racing, abandoned, invoked>>
    /\ UNCHANGED <<rlVars, twVars, rhVars, appVars>>

\* Mutant of ExecuteInvoke: an OPEN breaker whose nextAttempt has come lets
\* the call through without becoming HALF_OPEN.
ExecuteInvokeStaysOpen ==
    /\ nCalls < MaxCalls
    /\ ~CircuitOpen
    /\ InFlight < MaxInFlight
    /\ nCalls' = nCalls + 1
    /\ Commit(Breaker)
    /\ invoked' = invoked + 1
    /\ racing' = Append(racing, now + Timeout)
    /\ UNCHANGED abandoned
    /\ ret' = Ret("execute", "pending")
    /\ History("none", "none")
    /\ UNCHANGED <<now, cbConfig>>
    /\ UNCHANGED <<rlVars, twVars, rhVars, appVars>>

\* execute, up to the await of Promise.race: either the rejection of an open
\* circuit, or the lazy OPEN -> HALF_OPEN transition followed by the
\* invocation of fn and the arming of the timeout timer.
ExecuteRejected ==
    /\ nCalls < MaxCalls
    /\ CircuitOpen
    /\ nCalls' = nCalls + 1
    /\ ret' = Ret("execute", "circuitOpen")
    /\ Commit(Breaker)
    /\ History("none", "none")
    /\ UNCHANGED <<now, cbConfig, racing, abandoned, invoked>>
    /\ UNCHANGED <<rlVars, twVars, rhVars, appVars>>

ExecuteInvoke ==
    /\ nCalls < MaxCalls
    /\ ~CircuitOpen
    /\ InFlight < MaxInFlight
    /\ nCalls' = nCalls + 1
    /\ Commit(IF state = "OPEN" THEN SetState(Breaker, "HALF_OPEN") ELSE Breaker)
    /\ invoked' = invoked + 1
    /\ racing' = Append(racing, now + Timeout)
    /\ UNCHANGED abandoned
    /\ ret' = Ret("execute", "pending")
    /\ History("none", "none")
    /\ UNCHANGED <<now, cbConfig>>
    /\ UNCHANGED <<rlVars, twVars, rhVars, appVars>>

\* fn's promise is fulfilled before the timer fires: clearTimeout, onSuccess,
\* the value is returned.
OpResolve(i) ==
    /\ i \in 1..Len(racing)
    /\ racing' = RemoveAt(racing, i)
    /\ UNCHANGED abandoned
    /\ Commit(OnSuccess(Breaker))
    /\ ret' = Ret("settle", "value")
    /\ History("success", "none")
    /\ UNCHANGED <<now, cbConfig, nCalls, invoked>>
    /\ UNCHANGED <<rlVars, twVars, rhVars, appVars>>

\* Mutant of OpReject: the error of fn is caught and not rethrown.
OpRejectSwallowed(i) ==
    /\ i \in 1..Len(racing)
    /\ racing' = RemoveAt(racing, i)
    /\ UNCHANGED abandoned
    /\ Commit(OnFailure(Breaker))
    /\ ret' = Ret("settle", "swallowed")
    /\ History("failure", "failure")
    /\ UNCHANGED <<now, cbConfig, nCalls, invoked>>
    /\ UNCHANGED <<rlVars, twVars, rhVars, appVars>>

\* fn's promise is rejected before the timer fires: clearTimeout, onFailure,
\* the error is rethrown.
OpReject(i) ==
    /\ i \in 1..Len(racing)
    /\ racing' = RemoveAt(racing, i)
    /\ UNCHANGED abandoned
    /\ Commit(OnFailure(Breaker))
    /\ ret' = Ret("settle", "opError")
    /\ History("failure", "failure")
    /\ UNCHANGED <<now, cbConfig, nCalls, invoked>>
    /\ UNCHANGED <<rlVars, twVars, rhVars, appVars>>

\* Mutant of TimerFire: the timeout error is thrown without onFailure.
TimerFireUncounted(i) ==
    /\ i \in 1..Len(racing)
    /\ now >= racing[i]
    /\ racing' = RemoveAt(racing, i)
    /\ abandoned' = abandoned + 1
    /\ Commit(Breaker)
    /\ ret' = Ret("timer", "timeout")
    /\ History("failure", "failure")
    /\ UNCHANGED <<now, cbConfig, nCalls, invoked>>
    /\ UNCHANGED <<rlVars, twVars, rhVars, appVars>>

\* The timer fires while fn's promise is pending: the race is lost by fn,
\* onFailure, Error('Operation timeout') is thrown.  fn itself goes on.
TimerFire(i) ==
    /\ i \in 1..Len(racing)
    /\ now >= racing[i]
    /\ racing' = RemoveAt(racing, i)
    /\ abandoned' = abandoned + 1
    /\ Commit(OnFailure(Breaker))
    /\ ret' = Ret("timer", "timeout")
    /\ History("failure", "failure")
    /\ UNCHANGED <<now, cbConfig, nCalls, invoked>>
    /\ UNCHANGED <<rlVars, twVars, rhVars, appVars>>

\* Mutant of LateSettle: the late fulfilment still reaches onSuccess.
LateSettleCounted ==
    /\ abandoned > 0
    /\ abandoned' = abandoned - 1
    /\ UNCHANGED racing
    /\ Commit(OnSuccess(Breaker))
    /\ ret' = Ret("late", "ignored")
    /\ History("none", "none")
    /\ UNCHANGED <<now, cbConfig, nCalls, invoked>>
    /\ UNCHANGED <<rlVars, twVars, rhVars, appVars>>

\* The promise of an abandoned fn settles after the race was decided: no
\* handler of execute is attached to it any more.
LateSettle ==
    /\ abandoned > 0
    /\ abandoned' = abandoned - 1
    /\ UNCHANGED racing
    /\ Commit(Breaker)
    /\ ret' = Ret("late", "ignored")
    /\ History("none", "none")
    /\ UNCHANGED <<now, cbConfig, nCalls, invoked>>
    /\ UNCHANGED <<rlVars, twVars, rhVars, appVars>>

\* Mutant of Reset: failureCount is not zeroed.
ResetKeepsFailures ==
    /\ Commit([SetState(Breaker, "CLOSED") EXCEPT
                  !.successCount = 0, !.nextAttempt = now])
    /\ ret' = Ret("reset", "none")
    /\ History("reset", "none")
    /\ UNCHANGED <<now, cbConfig, racing, abandoned, nCalls, invoked>>
    /\ UNCHANGED <<rlVars, twVars, rhVars, appVars>>

\* reset
Reset ==
    /\ Commit([SetState(Breaker, "CLOSED") EXCEPT
                  !.failureCount = 0, !.successCount = 0, !.nextAttempt = now])
    /\ ret' = Ret("reset", "none")
    /\ History("reset", "none")
    /\ UNCHANGED <<now, cbConfig, racing, abandoned, nCalls, invoked>>
    /\ UNCHANGED <<rlVars, twVars, rhVars, appVars>>

\* Mutant of ForceOpen: nextAttempt is not assigned.
ForceOpenUnarmed ==
    /\ Commit(SetState(Breaker, "OPEN"))
    /\ ret' = Ret("forceOpen", "none")
    /\ History("none", "force")
    /\ UNCHANGED <<now, cbConfig, racing, abandoned, nCalls, invoked>>
    /\ UNCHANGED <<rlVars, twVars, rhVars, appVars>>

\* forceOpen
ForceOpen ==
    /\ Commit([SetState(Breaker, "OPEN") EXCEPT
                  !.nextAttempt = now + ResetTimeout])
    /\ ret' = Ret("forceOpen", "none")
    /\ History("none", "force")
    /\ UNCHANGED <<now, cbConfig, racing, abandoned, nCalls, invoked>>
    /\ UNCHANGED <<rlVars, twVars, rhVars, appVars>>

\* forceClose: this.reset()
ForceClose ==
    /\ Commit([SetState(Breaker, "CLOSED") EXCEPT
                  !.failureCount = 0, !.successCount = 0, !.nextAttempt = now])
    /\ ret' = Ret("forceClose", "none")
    /\ History("reset", "none")
    /\ UNCHANGED <<now, cbConfig, racing, abandoned, nCalls, invoked>>
    /\ UNCHANGED <<rlVars, twVars, rhVars, appVars>>

\* Date.now() advances.
TickCB ==
    /\ now < MaxTime
    /\ now' = now + 1
    /\ ret' = Ret("tick", "none")
    /\ notes' = <<>>
    /\ seen' = <<>>
    /\ UNCHANGED <<cbFields, cbConfig, racing, abandoned, nCalls, invoked, applied, cbHist>>
    /\ UNCHANGED <<rlVars, twVars, rhVars, appVars>>

\* Date.now() advances, over two open periods.
TickRecovery ==
    /\ now < MaxRecoveryTime
    /\ now' = now + 1
    /\ ret' = Ret("tick", "none")
    /\ notes' = <<>>
    /\ seen' = <<>>
    /\ UNCHANGED <<cbFields, cbConfig, racing, abandoned, nCalls, invoked, applied, cbHist>>
    /\ UNCHANGED <<rlVars, twVars, rhVars, appVars>>

\* new CircuitBreaker({failureThreshold, successThreshold, timeout, resetTimeout})
InitCB ==
    /\ state = "CLOSED"
    /\ failureCount = 0
    /\ successCount = 0
    /\ nextAttempt = now
    /\ failureThreshold \in 1..MaxThreshold
    /\ successThreshold \in 1..MaxThreshold
    /\ racing = <<>>
    /\ abandoned = 0
    /\ nCalls = 0
    /\ invoked = 0
    /\ notes = <<>>
    /\ seen = <<>>
    /\ applied = 0
    /\ streak = 0
    /\ hoSucc = 0
    /\ trials = 0
    /\ openedBy = "none"

NextCB ==
    \/ ExecuteRejected
    \/ ExecuteInvoke
    \/ \E i \in DOMAIN racing : OpResolve(i)
    \/ \E i \in DOMAIN racing : OpReject(i)
    \/ \E i \in DOMAIN racing : TimerFire(i)
    \/ LateSettle
    \/ Reset
    \/ ForceOpen
    \/ ForceClose
    \/ TickCB

\* The breaker followed through two open periods.
NextRecovery ==
    \/ ExecuteRejected
    \/ ExecuteInvoke
    \/ \E i \in DOMAIN racing : OpResolve(i)
    \/ \E i \in DOMAIN racing : OpReject(i)
    \/ \E i \in DOMAIN racing : TimerFire(i)
    \/ LateSettle
    \/ Reset
    \/ ForceOpen
    \/ ForceClose
    \/ TickRecovery

(* --------------------- recovery of the CircuitBreaker ------------------ *)

\* One caller makes the execute calls one after the other.  Operations fail
\* or time out, or forceOpen is called, until the breaker has opened for
\* the first time; from then on every operation is fulfilled before its
\* timer is due, and forceOpen is not called again.
Opened == openedBy # "none"

\* The open period that starts now ends before the clock of the model stops.
EarlyEnough == now + ResetTimeout <= MaxRecoveryTime

\* After the call made now, the calls of the model suffice for
\* successThreshold trial calls.
CallsRemain == MaxCalls - (nCalls + 1) >= successThreshold

HealExecuteRejected ==
    /\ racing = <<>>
    /\ CallsRemain
    /\ ExecuteRejected

HealExecuteInvoke ==
    /\ racing = <<>>
    /\ Opened \/ CallsRemain
    /\ ExecuteInvoke

HealFails ==
    /\ ~Opened
    /\ EarlyEnough
    /\ \E i \in DOMAIN racing : OpReject(i) \/ TimerFire(i)

HealForceOpen ==
    /\ ~Opened
    /\ EarlyEnough
    /\ \A i \in DOMAIN racing : now < racing[i]
    /\ ForceOpen

\* Date.now() advances; once the breaker has opened, no sooner than the
\* operation in flight is fulfilled.
TickHeal ==
    /\ Opened => racing = <<>>
    /\ TickRecovery

NextHeal ==
    \/ HealExecuteRejected
    \/ HealExecuteInvoke
    \/ \E i \in DOMAIN racing : OpResolve(i)
    \/ HealFails
    \/ HealForceOpen
    \/ LateSettle
    \/ TickHeal

(* ----------------------------- RateLimiter ---------------------------- *)

\* The numbers of tokens a call asks for: up to one more than the bucket holds.
Requests == 0..(maxTokens + 1)

\* What a caller suspended in acquire(n) or execute(fn, n) is doing: in the
\* sleep of the polling loop ("sleeping"), past the end of that sleep
\* ("ready"), or awaiting the fn of execute ("running").
Waiting ==
    [pc : {"sleeping", "ready"}, kind : {"acquire", "execute"},
     n : 1..(MaxCapacity + 1)]
Running == [pc |-> "running", kind |-> "execute", n |-> 0]
CallerStates == Waiting \cup {Running}

RECURSIVE CountIn(_, _)
CountIn(c, S) ==
    IF S = {} THEN 0
    ELSE LET e == CHOOSE x \in S : TRUE
         IN  c[e] + CountIn(c, S \ {e})

\* The number of suspended callers.
Suspended == CountIn(callers, {e \in CallerStates : callers[e] > 0})

\* The two fields tryAcquire and refill work on.
Limiter == [tokens |-> tokens, lastRefill |-> lastRefill]

CommitLimiter(l) ==
    /\ tokens' = l.tokens
    /\ lastRefill' = l.lastRefill

\* (timePassed / 1000) * refillRate, for every time that can pass in the
\* model, in clock steps, and every rate.
TokensAdded ==
    [k \in 0..MaxLongTime, r \in Rates |-> MulD[Seconds[k * TickMs], r]]

\* refill: tokensToAdd = (timePassed / 1000) * refillRate
TokensToAdd(l) == TokensAdded[now - l.lastRefill, refillRate]

\* Mutant of Refill: the sum is not capped at maxTokens.
RefillUncapped(l) ==
    [tokens |-> AddD[l.tokens, TokensToAdd(l)], lastRefill |-> now]

\* refill: the token count plus tokensToAdd, capped at maxTokens.
Refill(l) ==
    LET sum == AddD[l.tokens, TokensToAdd(l)]
    IN  [tokens |-> MinD[FromInt[maxTokens], sum], lastRefill |-> now]

\* Mutant of TryAcquireOn: a request for exactly what is there is denied.
TryAcquireStrict(l, n) ==
    LET r == Refill(l)
    IN  IF Geq[r.tokens, FromInt[n]] /\ r.tokens # FromInt[n]
        THEN [l |-> [r EXCEPT !.tokens = SubD[@, FromInt[n]]], ok |-> TRUE]
        ELSE [l |-> r, ok |-> FALSE]

\* Mutant of TryAcquireOn: the tokens granted are not taken from the bucket.
TryAcquireFree(l, n) ==
    LET r == Refill(l)
    IN  [l |-> r, ok |-> Geq[r.tokens, FromInt[n]]]

\* tryAcquire(n) on the limiter l: the limiter after it and what it returns.
TryAcquireOn(l, n) ==
    LET r == Refill(l)
    IN  IF Geq[r.tokens, FromInt[n]]
        THEN [l |-> [r EXCEPT !.tokens = SubD[@, FromInt[n]]], ok |-> TRUE]
        ELSE [l |-> r, ok |-> FALSE]

\* The tokens granted are not counted: the count is not needed, or reset
\* has been called.
NotMetered == -1

\* What a call of tryAcquire(n) that returns ok adds to the tokens granted.
Meter(ok, n) ==
    granted' = IF ok /\ granted # NotMetered THEN granted + n ELSE granted

\* A direct call of tryAcquire(n).
TryAcquire(n) ==
    LET t == TryAcquireOn(Limiter, n)
    IN  /\ CommitLimiter(t.l)
        /\ ret' = RetN("tryAcquire", IF t.ok THEN "granted" ELSE "denied", n)
        /\ Meter(t.ok, n)
        /\ UNCHANGED <<now, intervalId, rlConfig, rlEnv, cbVars, twVars, rhVars, appVars>>

\* Mutant of Poll: acquire tries once (an if in place of the while) and
\* returns whether or not the tokens were granted.
PollOnce(others, kind, n) ==
    LET t == TryAcquireOn(Limiter, n)
    IN  /\ CommitLimiter(t.l)
        /\ callers' = IF kind = "acquire" THEN others
                       ELSE [others EXCEPT ![Running] = @ + 1]
        /\ ret' = RetN(kind, IF t.ok THEN "granted" ELSE "denied", n)
        /\ Meter(t.ok, n)
        /\ UNCHANGED <<now, intervalId, rlConfig, timers, cbVars, twVars, rhVars, appVars>>

\* One round of the loop of acquire(n): tryAcquire, and then either the
\* return of acquire (for execute: the invocation of fn) or a sleep of 100
\* ms.  `others' are the suspended callers but the one going round.
Poll(others, kind, n) ==
    \E t \in {TryAcquireOn(Limiter, n)} :
        LET next == IF ~t.ok THEN [pc |-> "sleeping", kind |-> kind, n |-> n]
                    ELSE Running
        IN  /\ CommitLimiter(t.l)
            /\ callers' = IF t.ok /\ kind = "acquire" THEN others
                           ELSE [others EXCEPT ![next] = @ + 1]
            /\ ret' = RetN(kind, IF t.ok THEN "granted" ELSE "denied", n)
            /\ Meter(t.ok, n)
            /\ UNCHANGED <<now, intervalId, rlConfig, timers, cbVars, twVars, rhVars, appVars>>

\* acquire(n) is called.
Acquire(n) ==
    /\ Suspended < MaxCallers
    /\ Poll(callers, "acquire", n)

\* Mutant of ExecuteLimited: execute invokes fn without acquiring.
ExecuteUnlimited(n) ==
    /\ Suspended < MaxCallers
    /\ callers' = [callers EXCEPT ![Running] = @ + 1]
    /\ ret' = RetN("execute", "granted", n)
    /\ UNCHANGED <<now, rlFields, rlConfig, rlHist, timers, cbVars, twVars,
                   rhVars, appVars>>

\* execute(fn, n) is called.
ExecuteLimited(n) ==
    /\ Suspended < MaxCallers
    /\ Poll(callers, "execute", n)

\* The sleep of a polling caller is over: the loop goes round.
Wake(e) ==
    /\ e.pc = "ready"
    /\ callers[e] > 0
    /\ Poll([callers EXCEPT ![e] = @ - 1], e.kind, e.n)

\* Mutant of FnSettles: the tokens are given back when fn fails.
FnSettlesRefunds(outcome) ==
    /\ callers[Running] > 0
    /\ callers' = [callers EXCEPT ![Running] = @ - 1]
    /\ ret' = Ret("fn", outcome)
    /\ tokens' = IF outcome = "error" THEN FromInt[maxTokens] ELSE tokens
    /\ UNCHANGED <<now, lastRefill, intervalId, rlConfig, rlHist, timers, cbVars, twVars, rhVars, appVars>>

\* The fn of an execute call settles; execute settles the same way.
FnSettles(outcome) ==
    /\ callers[Running] > 0
    /\ callers' = [callers EXCEPT ![Running] = @ - 1]
    /\ ret' = Ret("fn", outcome)
    /\ UNCHANGED <<now, rlFields, rlConfig, rlHist, timers, cbVars, twVars, rhVars, appVars>>

\* getAvailableTokens: refill, then the floor of the token count.
GetAvailableTokens ==
    LET r == Refill(Limiter)
    IN  /\ CommitLimiter(r)
        /\ ret' = RetN("getAvailableTokens", "value", Floor[r.tokens])
        /\ UNCHANGED <<now, intervalId, rlConfig, rlHist, rlEnv, cbVars, twVars, rhVars, appVars>>

\* reset
ResetLimiter ==
    /\ tokens' = FromInt[maxTokens]
    /\ lastRefill' = now
    /\ ret' = Ret("resetLimiter", "none")
    /\ granted' = NotMetered
    /\ UNCHANGED <<now, intervalId, rlConfig, rlEnv, cbVars, twVars, rhVars, appVars>>

\* Mutant of StartAutoRefill: intervalId is not looked at.
StartAutoRefillAgain ==
    /\ timers' = Append(timers, FALSE)
    /\ intervalId' = TRUE
    /\ ret' = Ret("startAutoRefill", "none")
    /\ UNCHANGED <<now, tokens, lastRefill, rlConfig, rlHist, callers, cbVars, twVars, rhVars, appVars>>

\* startAutoRefill: a no-op when intervalId is set.
StartAutoRefill ==
    /\ IF intervalId
       THEN UNCHANGED <<intervalId, timers>>
       ELSE /\ timers' = Append(timers, FALSE)
            /\ intervalId' = TRUE
    /\ ret' = Ret("startAutoRefill", "none")
    /\ UNCHANGED <<now, tokens, lastRefill, rlConfig, rlHist, callers, cbVars, twVars, rhVars, appVars>>

\* stopAutoRefill (destroy calls it): clearInterval of the timer intervalId
\* names, the one created last.
StopAutoRefill ==
    /\ IF intervalId
       THEN /\ timers' = SubSeq(timers, 1, Len(timers) - 1)
            /\ intervalId' = FALSE
       ELSE UNCHANGED <<intervalId, timers>>
    /\ ret' = Ret("stopAutoRefill", "none")
    /\ UNCHANGED <<now, tokens, lastRefill, rlConfig, rlHist, callers, cbVars, twVars, rhVars, appVars>>

\* destroy: stopAutoRefill().
Destroy ==
    /\ IF intervalId
       THEN /\ timers' = SubSeq(timers, 1, Len(timers) - 1)
            /\ intervalId' = FALSE
       ELSE UNCHANGED <<intervalId, timers>>
    /\ ret' = Ret("destroy", "none")
    /\ UNCHANGED <<now, tokens, lastRefill, rlConfig, rlHist, callers, cbVars, twVars, rhVars, appVars>>

\* A setInterval timer fires: refill().
IntervalFires(i) ==
    /\ i \in 1..Len(timers)
    /\ timers[i]
    /\ timers' = [timers EXCEPT ![i] = FALSE]
    /\ CommitLimiter(Refill(Limiter))
    /\ ret' = Ret("interval", "none")
    /\ UNCHANGED <<now, intervalId, rlConfig, rlHist, callers, cbVars, twVars, rhVars, appVars>>

\* Date.now() advances by TickMs: the sleeps and the intervals that were
\* running are over.
TickRL ==
    /\ now < MaxTime
    /\ now' = now + 1
    /\ callers' = [e \in CallerStates |->
                      CASE e.pc = "sleeping" -> 0
                        [] e.pc = "ready" ->
                             callers[e] + callers[[e EXCEPT !.pc = "sleeping"]]
                        [] OTHER -> callers[e]]
    /\ timers' = [i \in 1..Len(timers) |-> TRUE]
    /\ ret' = Ret("tick", "none")
    /\ UNCHANGED <<rlFields, rlConfig, rlHist, cbVars, twVars, rhVars, appVars>>

\* new RateLimiter({maxTokens, refillRate, refillInterval})
FreshRL ==
    /\ tokens = FromInt[maxTokens]
    /\ lastRefill = now
    /\ intervalId = FALSE
    /\ timers = <<>>
    /\ callers = [e \in CallerStates |-> 0]
    /\ twin = [tokens |-> FromInt[maxTokens], lastRefill |-> now,
               ret |-> Ret("new", "none")]
    /\ mark = [tokens |-> FromInt[maxTokens], at |-> now]

\* The limiter newly constructed, under every configuration.
NewRL ==
    /\ maxTokens \in 1..MaxCapacity
    /\ refillRate \in Rates
    /\ FreshRL

\* The limiter newly constructed, its grants not counted.
InitRL ==
    /\ NewRL
    /\ granted = NotMetered

NextRL ==
    \/ \E n \in Requests : TryAcquire(n)
    \/ \E n \in Requests : Acquire(n)
    \/ \E n \in Requests : ExecuteLimited(n)
    \/ \E e \in Waiting : Wake(e)
    \/ \E outcome \in {"value", "error"} : FnSettles(outcome)
    \/ GetAvailableTokens
    \/ ResetLimiter
    \/ StartAutoRefill
    \/ StopAutoRefill
    \/ Destroy
    \/ \E i \in DOMAIN timers : IntervalFires(i)
    \/ TickRL

\* Date.now() advances by TickMs, in the specifications that follow one
\* limiter up to MaxLongTime.
TickLong ==
    /\ now < MaxLongTime
    /\ now' = now + 1
    /\ callers' = [e \in CallerStates |->
                      CASE e.pc = "sleeping" -> 0
                        [] e.pc = "ready" ->
                             callers[e] + callers[[e EXCEPT !.pc = "sleeping"]]
                        [] OTHER -> callers[e]]
    /\ timers' = [i \in 1..Len(timers) |-> TRUE]
    /\ ret' = Ret("tick", "none")
    /\ UNCHANGED <<rlFields, rlConfig, rlHist, cbVars, twVars, rhVars, appVars>>

\* The requests that can be granted and take tokens.
Grantable == 1..maxTokens

\* The limiter on which reset is not called, followed up to MaxLongTime.
NextRate ==
    \/ \E n \in Grantable : TryAcquire(n)
    \/ \E n \in Grantable : Acquire(n)
    \/ \E n \in Grantable : ExecuteLimited(n)
    \/ \E e \in Waiting : Wake(e)
    \/ \E outcome \in {"value", "error"} : FnSettles(outcome)
    \/ GetAvailableTokens
    \/ StartAutoRefill
    \/ StopAutoRefill
    \/ \E i \in DOMAIN timers : IntervalFires(i)
    \/ TickLong

(* ---------------------- callers that keep coming ---------------------- *)

\* One caller asks for the whole bucket, once; others ask for one token,
\* again and again.  The clock has no end here: the limiter reads
\* Date.now() only in now - lastRefill (refill), so a clock step is taken
\* from the present, as lastRefill moving one step into the past.
TickContend ==
    /\ now - lastRefill < MaxLongTime
    /\ lastRefill' = lastRefill - 1
    /\ callers' = [e \in CallerStates |->
                      CASE e.pc = "sleeping" -> 0
                        [] e.pc = "ready" ->
                             callers[e] + callers[[e EXCEPT !.pc = "sleeping"]]
                        [] OTHER -> callers[e]]
    /\ timers' = [i \in 1..Len(timers) |-> TRUE]
    /\ ret' = Ret("tick", "none")
    /\ UNCHANGED <<now, tokens, intervalId, rlConfig, rlHist, cbVars, twVars,
                   rhVars, appVars>>

\* The caller that asks for the whole bucket is suspended in acquire.
BigWaits == \E e \in Waiting : e.n = maxTokens /\ callers[e] > 0

\* acquire(maxTokens) is called, by one caller.
AcquireBig ==
    /\ ~BigWaits
    /\ Acquire(maxTokens)

NextContend ==
    \/ AcquireBig
    \/ Acquire(1)
    \/ \E e \in Waiting : Wake(e)
    \/ TickContend

(* ------------------------ two RateLimiters ---------------------------- *)

\* The twin is a second limiter, constructed with the same options at the
\* same time, on which startAutoRefill is never called.  The two limiters
\* read the same clock and receive the same calls.
Twin == [tokens |-> twin.tokens, lastRefill |-> twin.lastRefill]

\* tryAcquire(n) on both limiters.
TwinTryAcquire(n) ==
    LET t == TryAcquireOn(Limiter, n)
        u == TryAcquireOn(Twin, n)
    IN  /\ CommitLimiter(t.l)
        /\ ret' = RetN("tryAcquire", IF t.ok THEN "granted" ELSE "denied", n)
        /\ twin' = [tokens |-> u.l.tokens, lastRefill |-> u.l.lastRefill,
                    ret |-> RetN("tryAcquire",
                                 IF u.ok THEN "granted" ELSE "denied", n)]
        /\ mark' = IF t.ok /\ n > 0
                   THEN [tokens |-> t.l.tokens, at |-> now]
                   ELSE mark
        /\ Meter(t.ok, n)
        /\ UNCHANGED <<now, intervalId, rlConfig, rlEnv, cbVars, rhVars, appVars>>

\* getAvailableTokens() on both limiters.
TwinGetAvailableTokens ==
    LET r == Refill(Limiter)
        u == Refill(Twin)
    IN  /\ CommitLimiter(r)
        /\ ret' = RetN("getAvailableTokens", "value", Floor[r.tokens])
        /\ twin' = [tokens |-> u.tokens, lastRefill |-> u.lastRefill,
                    ret |-> RetN("getAvailableTokens", "value",
                                 Floor[u.tokens])]
        /\ UNCHANGED <<now, intervalId, rlConfig, rlHist, rlEnv, mark, cbVars,
                       rhVars, appVars>>

NextTwin ==
    \/ \E n \in Requests : TwinTryAcquire(n)
    \/ TwinGetAvailableTokens
    \/ StartAutoRefill
    \/ StopAutoRefill
    \/ \E i \in DOMAIN timers : IntervalFires(i)
    \/ TickLong

(* ------------------------- one caller of acquire ----------------------- *)

\* acquire(n) is called, with 0 <= n <= maxTokens, by the only user of the
\* limiter, who makes one call at a time.  The call is made early enough
\* for the clock of the model to run, after it, for the time that refills
\* the whole bucket and one sleep more.
AcquireAlone(n) ==
    /\ Suspended = 0
    /\ n <= maxTokens
    /\ (MaxLongTime - now - 1) * refillRate >= maxTokens * TicksPerSecond
    /\ Poll(callers, "acquire", n)

NextAlone ==
    \/ \E n \in Requests : AcquireAlone(n)
    \/ \E e \in Waiting : Wake(e)
    \/ StartAutoRefill
    \/ StopAutoRefill
    \/ \E i \in DOMAIN timers : IntervalFires(i)
    \/ TickLong

(* ----------------------------- RetryHandler ---------------------------- *)

\* One execute call at a time is followed on the handler.  fn is an
\* operation of the caller: each invocation settles, at any time, with a
\* value or with a new Error object.  The k-th invocation of a call settles
\* with value k or with error k; an error is either one the custom
\* shouldRetry option accepts or one it refuses.
FnOutcomes == {"value", "retryable", "fatal"}

Error(k, r) == [id |-> k, retryable |-> r]
\* let lastError: Error; (not assigned)
Undefined == Error(0, FALSE)

Pending == [state |-> "pending", n |-> 0]
Fulfilled(k) == [state |-> "fulfilled", n |-> k]
Rejected(error) == [state |-> "rejected", n |-> error.id]

\* this.shouldRetry(error)
ShouldRetry(error) == shouldRetry = "default" \/ error.retryable

\* Math.pow(b, e) for whole b >= 0 and e >= 0; Math.pow(0, 0) is 1.
RECURSIVE Pow(_, _)
Pow(b, e) == IF e = 0 THEN 1 ELSE b * Pow(b, e - 1)

\* Mutant of CalculateDelay: the delay is not capped at maxDelay.
CalculateDelayUncapped(a) == initialDelay * Pow(exponentialBase, a)

\* calculateDelay(attempt)
CalculateDelay(a) ==
    LET delay == initialDelay * Pow(exponentialBase, a)
    IN  Min(delay, maxDelay)

\* Mutant of AttemptNumber: onRetry is given attempt, counted from 0.
AttemptNumberZeroBased(a) == a

\* The first argument of onRetry.
AttemptNumber(a) == a + 1

\* Mutant of LoopTest: the loop runs while attempt < maxRetries.
LoopTestStrict(a) == a < maxRetries

\* while (attempt <= this.maxRetries)
LoopTest(a) == a <= maxRetries

\* Mutants of GivesUp: the budget is taken to be used up one attempt
\* early; shouldRetry is not asked.
GivesUpEarly(a, error) == a + 1 >= maxRetries \/ ~ShouldRetry(error)
GivesUpOnBudget(a, error) == a = maxRetries

\* attempt === this.maxRetries || ...: shouldRetry is called only when the
\* left-hand side is false.
Asks(a) == a # maxRetries

\* if (attempt === this.maxRetries || !this.shouldRetry(lastError))
GivesUp(a, error) == a = maxRetries \/ ~ShouldRetry(error)

\* The head of the while loop with attempt = a, calls the invocations of
\* fn the call has made: fn is invoked and awaited, or the loop is over
\* and lastError is thrown.
Loop(a, calls) ==
    /\ attempt' = a
    /\ IF LoopTest(a)
       THEN /\ started' = Append(calls, now)
            /\ rhPc' = "awaiting"
            /\ promise' = Pending
            /\ ret' = Ret("fn", "invoked")
       ELSE /\ started' = calls
            /\ rhPc' = "idle"
            /\ promise' = Rejected(lastError')
            /\ ret' = Ret("retry", "rejected")

\* execute(fn) is called: up to await fn().
RhExecute ==
    /\ rhPc = "idle"
    /\ lastError' = Undefined
    /\ Loop(0, <<>>)
    /\ outcomes' = <<>>
    /\ asked' = <<>>
    /\ retried' = <<>>
    /\ slept' = <<>>
    /\ UNCHANGED <<now, wakeAt, rhConfig, sync, peer, cbVars, rlVars,
                   twVars, appVars>>

\* The promise of fn settles: execute returns the value, or the catch block
\* runs up to throw lastError or up to await this.sleep(delay).
RhFnSettles(o) ==
    /\ rhPc = "awaiting"
    /\ LET error == Error(Len(started), o = "retryable")
           delay == CalculateDelay(attempt)
       IN  IF o = "value"
           THEN /\ outcomes' = Append(outcomes, [ok |-> TRUE, at |-> now,
                                                 error |-> Undefined])
                /\ promise' = Fulfilled(Len(started))
                /\ rhPc' = "idle"
                /\ ret' = Ret("retry", "returned")
                /\ UNCHANGED <<lastError, wakeAt, asked, retried, slept>>
           ELSE /\ outcomes' = Append(outcomes, [ok |-> FALSE, at |-> now,
                                                 error |-> error])
                /\ lastError' = error
                /\ asked' = IF Asks(attempt) THEN Append(asked, error)
                            ELSE asked
                /\ IF GivesUp(attempt, error)
                   THEN /\ promise' = Rejected(error)
                        /\ rhPc' = "idle"
                        /\ ret' = Ret("retry", "rejected")
                        /\ UNCHANGED <<wakeAt, retried, slept>>
                   ELSE /\ retried' =
                              IF onRetry
                              THEN Append(retried,
                                          [attempt |-> AttemptNumber(attempt),
                                           error |-> error])
                              ELSE retried
                        /\ slept' = Append(slept, delay)
                        /\ wakeAt' = now * TickMs + delay
                        /\ rhPc' = "sleeping"
                        /\ ret' = Ret("retry", "sleep")
                        /\ UNCHANGED promise
    /\ UNCHANGED <<now, attempt, started, rhConfig, sync, peer, cbVars,
                   rlVars, twVars, appVars>>

\* The timer of sleep fires, not before it is due: attempt++, and round the
\* loop.
RhWake ==
    /\ rhPc = "sleeping"
    /\ now * TickMs >= wakeAt
    /\ Loop(attempt + 1, started)
    /\ UNCHANGED <<now, lastError, wakeAt, outcomes, asked, retried, slept,
                   rhConfig, sync, peer, cbVars, rlVars, twVars, appVars>>

(* ------------ retry(rateLimiter(circuitBreaker(op))) ------------------- *)

\* One call retry.execute(() => rateLimiter.execute(() =>
\* circuitBreaker.execute(op))) with an op that always fails.  The k-th
\* attempt is where its innermost call has got to: the limiter's execute
\* has not been called yet (Entering), it is suspended in acquire, it has
\* its token and the breaker's execute is due (AtBreaker), op is in flight,
\* or the breaker's execute has thrown (Thrown) and the error is on its way
\* out through the limiter to the catch block of the handler.
Entering == rhPc = "awaiting" /\ Suspended = 0 /\ nCalls < Len(started)
AtBreaker == callers[Running] = 1 /\ nCalls < Len(started)
Thrown == nCalls = Len(started) /\ racing = <<>>

\* retry.execute is called, once.
StackExecute ==
    /\ started = <<>>
    /\ promise = Pending
    /\ RhExecute

\* The handler's fn calls rateLimiter.execute(fn', 1).
StackLimit ==
    /\ Entering
    /\ ExecuteLimited(1)

\* The limiter's fn calls circuitBreaker.execute(op).
StackRejected ==
    /\ AtBreaker
    /\ ExecuteRejected

StackInvoke ==
    /\ AtBreaker
    /\ ExecuteInvoke

\* op fails, at once or later, before its timeout.
StackOpFails == OpReject(1)

\* The error thrown by the breaker's execute rejects the limiter's execute
\* and then the handler's fn.
StackLimitThrows ==
    /\ callers[Running] = 1
    /\ Thrown
    /\ FnSettles("error")

StackCatch ==
    /\ Suspended = 0
    /\ Thrown
    /\ RhFnSettles("retryable")

\* Date.now() advances while the call waits for a timer or for op, and not
\* past the time a timer is due.
TickStack ==
    /\ \/ rhPc = "sleeping" /\ now * TickMs < wakeAt
       \/ \E e \in Waiting : e.pc = "sleeping" /\ callers[e] > 0
       \/ racing # <<>>
    /\ \A e \in Waiting : e.pc = "ready" => callers[e] = 0
    /\ \A i \in DOMAIN racing : now < racing[i]
    /\ TickLong

NextStack ==
    \/ StackExecute
    \/ StackLimit
    \/ \E e \in Waiting : Wake(e)
    \/ StackRejected
    \/ StackInvoke
    \/ StackOpFails
    \/ StackLimitThrows
    \/ StackCatch
    \/ RhWake
    \/ TickStack

\* No executeSync call has been made.
NoSync ==
    [fed |-> <<>>, invoked |-> 0, lastError |-> Undefined, asked |-> <<>>,
     retried |-> <<>>, result |-> Pending]

\* Mutant of SyncLoop: shouldRetry is asked before the budget is looked at.
RECURSIVE SyncLoopAsksFirst(_, _, _)
SyncLoopAsksFirst(a, os, r) ==
    IF ~LoopTest(a)
    THEN [r EXCEPT !.result = Rejected(r.lastError)]
    ELSE LET k == r.invoked + 1
             error == Error(k, os[k] = "retryable")
             r1 == [r EXCEPT !.invoked = k, !.fed = Append(@, os[k])]
             r2 == [r1 EXCEPT !.lastError = error,
                              !.asked = Append(@, error)]
             r3 == [r2 EXCEPT !.retried =
                       IF onRetry
                       THEN Append(@, [attempt |-> AttemptNumber(a),
                                       error |-> error])
                       ELSE @]
         IN  IF os[k] = "value"
             THEN [r1 EXCEPT !.result = Fulfilled(k)]
             ELSE IF GivesUp(a, error)
                  THEN [r2 EXCEPT !.result = Rejected(error)]
                  ELSE SyncLoopAsksFirst(a + 1, os, r3)

\* The while loop of executeSync from attempt = a on, the invocations of
\* fn ending as os says, r being what the call has done so far.
RECURSIVE SyncLoop(_, _, _)
SyncLoop(a, os, r) ==
    IF ~(a <= maxRetries)
    THEN [r EXCEPT !.result = Rejected(r.lastError)]
    ELSE LET k == r.invoked + 1
             error == Error(k, os[k] = "retryable")
             r1 == [r EXCEPT !.invoked = k, !.fed = Append(@, os[k])]
             r2 == [r1 EXCEPT !.lastError = error,
                              !.asked = IF a = maxRetries THEN @
                                        ELSE Append(@, error)]
             r3 == [r2 EXCEPT !.retried =
                       IF onRetry
                       THEN Append(@, [attempt |-> a + 1, error |-> error])
                       ELSE @]
         IN  IF os[k] = "value"
             THEN [r1 EXCEPT !.result = Fulfilled(k)]
             ELSE IF a = maxRetries \/ ~ShouldRetry(error)
                  THEN [r2 EXCEPT !.result = Rejected(error)]
                  ELSE SyncLoop(a + 1, os, r3)

\* The outcomes fn can have in one executeSync call.
FnRuns == [1..(MaxRetries + 1) -> FnOutcomes]

\* executeSync(fn): the whole call, fn returning a value or throwing.  One
\* executeSync call is followed.
RhExecuteSync(os) ==
    /\ sync = NoSync
    /\ sync' = SyncLoop(0, os, NoSync)
    /\ ret' = Ret("retrySync", sync'.result.state)
    /\ UNCHANGED <<now, rhConfig, rhCall, rhHist, peer, cbVars, rlVars,
                   twVars, appVars>>

\* A second execute call made on the same handler, or a second call of the
\* function made by wrap, while the first is under way or after it: the
\* locals of execute (attempt, lastError), where the call is, its timer and
\* its promise, and for the properties the number of invocations of fn,
\* how they ended, the onRetry calls and the delays slept for.
NoCall ==
    [attempt |-> 0, lastError |-> Undefined, pc |-> "idle", wakeAt |-> 0,
     promise |-> Pending, invoked |-> 0, fed |-> <<>>, retried |-> <<>>,
     slept |-> <<>>]

\* The head of the while loop in the call c, with attempt = a.
PeerLoop(c, a) ==
    IF LoopTest(a)
    THEN [c EXCEPT !.attempt = a, !.invoked = @ + 1, !.pc = "awaiting",
                   !.promise = Pending]
    ELSE [c EXCEPT !.attempt = a, !.pc = "idle",
                   !.promise = Rejected(c.lastError)]

\* Mutant of PeerExecute: attempt is kept in the handler, where the other
\* call left it.
PeerExecuteSharesAttempt ==
    /\ peer.pc = "idle"
    /\ peer' = PeerLoop(NoCall, attempt)
    /\ ret' = Ret("peer", "invoked")
    /\ UNCHANGED <<now, rhConfig, rhCall, rhHist, sync, cbVars, rlVars,
                   twVars, appVars>>

\* The second call: execute(fn) up to await fn().  wrap makes one handler
\* and calls its execute at each call of the wrapped function.
PeerExecute ==
    /\ peer.pc = "idle"
    /\ peer' = PeerLoop(NoCall, 0)
    /\ ret' = Ret("peer", "invoked")
    /\ UNCHANGED <<now, rhConfig, rhCall, rhHist, sync, cbVars, rlVars,
                   twVars, appVars>>

\* The promise of fn settles in the second call.
PeerFnSettles(o) ==
    /\ peer.pc = "awaiting"
    /\ LET error == Error(peer.invoked, o = "retryable")
           delay == CalculateDelay(peer.attempt)
           c == [peer EXCEPT !.fed = Append(@, o)]
       IN  peer' =
             IF o = "value"
             THEN [c EXCEPT !.promise = Fulfilled(peer.invoked),
                            !.pc = "idle"]
             ELSE IF GivesUp(peer.attempt, error)
                  THEN [c EXCEPT !.lastError = error,
                                 !.promise = Rejected(error), !.pc = "idle"]
                  ELSE [c EXCEPT
                          !.lastError = error,
                          !.retried =
                             IF onRetry
                             THEN Append(@, [attempt |->
                                               AttemptNumber(peer.attempt),
                                             error |-> error])
                             ELSE @,
                          !.slept = Append(@, delay),
                          !.wakeAt = now * TickMs + delay,
                          !.pc = "sleeping"]
    /\ ret' = Ret("peer", peer'.promise.state)
    /\ UNCHANGED <<now, rhConfig, rhCall, rhHist, sync, cbVars, rlVars,
                   twVars, appVars>>

\* The timer of sleep fires in the second call: attempt++, round the loop.
PeerWake ==
    /\ peer.pc = "sleeping"
    /\ now * TickMs >= peer.wakeAt
    /\ peer' = PeerLoop(peer, peer.attempt + 1)
    /\ ret' = Ret("peer", "invoked")
    /\ UNCHANGED <<now, rhConfig, rhCall, rhHist, sync, cbVars, rlVars,
                   twVars, appVars>>

\* Date.now() advances by TickMs.
TickRH ==
    /\ now < MaxRetryTime
    /\ now' = now + 1
    /\ ret' = Ret("tick", "none")
    /\ UNCHANGED <<cbVars, rlVars, twVars, rhVars, appVars>>

\* new RetryHandler(options)
InitRH ==
    /\ maxRetries \in 0..MaxRetries
    /\ initialDelay \in InitialDelays
    /\ maxDelay \in MaxDelays
    /\ exponentialBase \in Bases
    /\ shouldRetry \in {"default", "custom"}
    /\ onRetry \in BOOLEAN
    /\ attempt = 0
    /\ lastError = Undefined
    /\ rhPc = "idle"
    /\ wakeAt = 0
    /\ promise = Pending
    /\ started = <<>>
    /\ outcomes = <<>>
    /\ asked = <<>>
    /\ retried = <<>>
    /\ slept = <<>>
    /\ sync = NoSync
    /\ peer = NoCall

\* A handler constructed with no options but maxRetries: 0, beside the
\* breaker or the limiter.
DefaultRH ==
    /\ maxRetries = 0
    /\ initialDelay = 10 * TickMs
    /\ maxDelay = 300 * TickMs
    /\ exponentialBase = 2
    /\ shouldRetry = "default"
    /\ onRetry = FALSE
    /\ attempt = 0
    /\ lastError = Undefined
    /\ rhPc = "idle"
    /\ wakeAt = 0
    /\ promise = Pending
    /\ started = <<>>
    /\ outcomes = <<>>
    /\ asked = <<>>
    /\ retried = <<>>
    /\ slept = <<>>
    /\ sync = NoSync
    /\ peer = NoCall

NextRH ==
    \/ RhExecute
    \/ \E o \in FnOutcomes : RhFnSettles(o)
    \/ RhWake
    \/ TickRH

\* Two execute calls on one handler, one after the other or interleaved.
NextWrap ==
    \/ RhExecute
    \/ \E o \in FnOutcomes : RhFnSettles(o)
    \/ RhWake
    \/ PeerExecute
    \/ \E o \in FnOutcomes : PeerFnSettles(o)
    \/ PeerWake
    \/ TickRH

\* execute calls and executeSync calls on one handler.
NextSync ==
    \/ RhExecute
    \/ \E o \in FnOutcomes : RhFnSettles(o)
    \/ RhWake
    \/ \E os \in FnRuns : RhExecuteSync(os)
    \/ TickRH

(* ------------------------------ Database ------------------------------ *)

\* The table names, record ids and record contents the callers use.  Two
\* records with one id differ by their version.
TableNames == {"t"}
RecordIds == {1, 2}
Versions == {1, 2}

\* A Map object is known by its reference; tables and transactionBackup
\* map table names to references, and an insert or update that awaits its
\* delay holds the reference it read before.  A Map that neither tables nor
\* transactionBackup leads to any more can only be written, by such a
\* call, and never read: it is dropped, and the references to it become
\* NoRef.
Refs == 1..(2 * Cardinality(TableNames))
NoRef == 0

\* new Map(); transactionBackup = undefined
EmptyMap == [x \in {} |-> 0]
NoBackup == [defined |-> FALSE, tables |-> EmptyMap]
Backup(B) == [defined |-> TRUE, tables |-> B]

\* delay(5) of the record operations, delay(10) of connect.
OpDelay == 5
ConnectDelay == 10
Delay(op) == IF op = "connect" THEN ConnectDelay ELSE OpDelay

Call(op, name, ref, id, v) ==
    [op |-> op, table |-> name, ref |-> ref, id |-> id, v |-> v]

\* f with x mapped to y, and f without x.
Put(f, x, y) == [z \in DOMAIN f \cup {x} |-> IF z = x THEN y ELSE f[z]]
Del(f, x) == [z \in DOMAIN f \ {x} |-> f[z]]

\* The Maps that T (tables) and B (transactionBackup) lead to.
Reach(T, B) ==
    {T[n] : n \in DOMAIN T}
        \cup {B.tables[n] : n \in DOMAIN B.tables}

\* A reference not in use in M.
Fresh(M) == CHOOSE r \in Refs \ DOMAIN M : \A q \in Refs \ DOMAIN M : r <= q

\* The tables of T with their records, by name.
Contents(T, M) == [n \in DOMAIN T |-> M[T[n]]]

\* The fields and the Maps after a step: T, A, B are the new tables,
\* transactionActive and transactionBackup, M the Maps, P the calls awaiting.
Store(T, A, B, M, P) ==
    /\ tables' = T
    /\ transactionActive' = A
    /\ transactionBackup' = B
    /\ maps' = [r \in Reach(T, B) |-> M[r]]
    /\ pending' = [i \in DOMAIN P |->
                     IF P[i].ref \in Reach(T, B) THEN P[i]
                     ELSE [P[i] EXCEPT !.ref = NoRef]]

\* What the history variables become, the count of open transactions
\* moving by d.
DbHistory(d) ==
    /\ openTxns' = openTxns + d
    /\ atBegin' = CASE d = 1 -> Contents(tables, maps)
                     [] d = -1 -> EmptyMap
                     [] OTHER -> atBegin
    /\ undone' = IF d = -1 /\ ret'.op = "rollback"
                 THEN Contents(tables, maps) # atBegin
                 ELSE undone

DbRejects(op, error) ==
    /\ ret' = Ret(op, error)
    /\ DbHistory(0)
    /\ UNCHANGED <<dbFields, dbEnv>>

\* ensureConnected, ensureTableExists
NotConnected == ~connected
NoTable(n) == n \notin DOMAIN tables

\* connect(): up to await this.delay(10).
DbConnect ==
    /\ IF connected
       THEN DbRejects("connect", "DatabaseError")
       ELSE /\ Len(pending) < MaxPending
            /\ pending' = Append(pending, Call("connect", "", NoRef, 0, 0))
            /\ ret' = Ret("connect", "pending")
            /\ DbHistory(0)
            /\ UNCHANGED <<dbFields, maps>>
    /\ UNCHANGED <<now, cbVars, rlVars, twVars, rhVars, caVars, eeVars>>

\* disconnect()
DbDisconnect ==
    /\ IF NotConnected \/ transactionActive
       THEN DbRejects("disconnect", "DatabaseError")
       ELSE /\ connected' = FALSE
            /\ Store(EmptyMap, transactionActive, transactionBackup, maps,
                     pending)
            /\ ret' = Ret("disconnect", "resolved")
            /\ DbHistory(0)
    /\ UNCHANGED <<now, cbVars, rlVars, twVars, rhVars, caVars, eeVars>>

\* createTable(n)
DbCreateTable(n) ==
    /\ IF NotConnected \/ ~NoTable(n)
       THEN DbRejects("createTable", "DatabaseError")
       ELSE /\ Store(Put(tables, n, Fresh(maps)), transactionActive,
                     transactionBackup, Put(maps, Fresh(maps), EmptyMap),
                     pending)
            /\ ret' = Ret("createTable", "returned")
            /\ DbHistory(0)
            /\ UNCHANGED connected
    /\ UNCHANGED <<now, cbVars, rlVars, twVars, rhVars, caVars, eeVars>>

\* dropTable(n)
DbDropTable(n) ==
    /\ IF NotConnected \/ NoTable(n)
       THEN DbRejects("dropTable", "DatabaseError")
       ELSE /\ Store(Del(tables, n), transactionActive, transactionBackup,
                     maps, pending)
            /\ ret' = Ret("dropTable", "returned")
            /\ DbHistory(0)
            /\ UNCHANGED connected
    /\ UNCHANGED <<now, cbVars, rlVars, twVars, rhVars, caVars, eeVars>>

\* The call goes to sleep in delay(5).
Sleeps(call) ==
    /\ Len(pending) < MaxPending
    /\ pending' = Append(pending, call)
    /\ ret' = RetN(call.op, "pending", call.id)
    /\ DbHistory(0)
    /\ UNCHANGED <<dbFields, maps>>

\* insert(n, {id, v}): up to await this.delay(5), with table read before.
DbInsert(n, id, v) ==
    /\ IF NotConnected \/ NoTable(n) \/ id \in DOMAIN maps[tables[n]]
       THEN DbRejects("insert", "DatabaseError")
       ELSE Sleeps(Call("insert", n, tables[n], id, v))
    /\ UNCHANGED <<now, cbVars, rlVars, twVars, rhVars, caVars, eeVars>>

\* update(n, {id, v}): up to await this.delay(5), with table read before.
DbUpdate(n, id, v) ==
    /\ IF NotConnected \/ NoTable(n) \/ id \notin DOMAIN maps[tables[n]]
       THEN DbRejects("update", "DatabaseError")
       ELSE Sleeps(Call("update", n, tables[n], id, v))
    /\ UNCHANGED <<now, cbVars, rlVars, twVars, rhVars, caVars, eeVars>>

\* delete(n, id) and clear(n): up to await this.delay(5); the table is read
\* after.
DbDelete(n, id) ==
    /\ IF NotConnected \/ NoTable(n)
       THEN DbRejects("delete", "DatabaseError")
       ELSE Sleeps(Call("delete", n, NoRef, id, 0))
    /\ UNCHANGED <<now, cbVars, rlVars, twVars, rhVars, caVars, eeVars>>

DbClear(n) ==
    /\ IF NotConnected \/ NoTable(n)
       THEN DbRejects("clear", "DatabaseError")
       ELSE Sleeps(Call("clear", n, NoRef, 0, 0))
    /\ UNCHANGED <<now, cbVars, rlVars, twVars, rhVars, caVars, eeVars>>

\* The timer of pending[i] can fire: no timer set before it for the same or
\* a shorter delay is still to fire.
CanFire(i) == \A j \in 1..(i - 1) : Delay(pending[j].op) > Delay(pending[i].op)

\* The delay of the call pending[i] is over and the call runs to its end.
DbResume(i) ==
    /\ i \in DOMAIN pending
    /\ CanFire(i)
    /\ LET call == pending[i]
           rest == RemoveAt(pending, i)
           live == call.table \in DOMAIN tables
           ref == IF call.op \in {"insert", "update"} THEN call.ref
                  ELSE IF live THEN tables[call.table] ELSE NoRef
           old == IF ref \in DOMAIN maps THEN maps[ref] ELSE EmptyMap
           new == CASE call.op \in {"insert", "update"} ->
                         Put(old, call.id, call.v)
                    [] call.op = "delete" -> Del(old, call.id)
                    [] OTHER -> EmptyMap
       IN  /\ DbHistory(0)
           /\ CASE call.op = "connect" ->
                     /\ connected' = TRUE
                     /\ Store(tables, transactionActive, transactionBackup,
                              maps, rest)
                     /\ ret' = Ret("connect", "resolved")
                [] call.op \in {"delete", "clear"} /\ ~live ->
                     \* this.tables.get(tableName)! is undefined
                     /\ Store(tables, transactionActive, transactionBackup,
                              maps, rest)
                     /\ ret' = RetN(call.op, "TypeError", call.id)
                     /\ UNCHANGED connected
                [] OTHER ->
                     /\ Store(tables, transactionActive, transactionBackup,
                              IF ref \in DOMAIN maps THEN Put(maps, ref, new)
                              ELSE maps,
                              rest)
                     /\ ret' = RetN(call.op, "resolved", call.id)
                     /\ UNCHANGED connected
    /\ UNCHANGED <<now, cbVars, rlVars, twVars, rhVars, caVars, eeVars>>

\* The copy made by beginTransaction of the tables named in names: a new
\* Map for each, with the records of the table.
RECURSIVE Copies(_, _, _)
Copies(names, M, B) ==
    IF names = {} THEN [maps |-> M, backup |-> B]
    ELSE LET n == CHOOSE x \in names : TRUE
             r == Fresh(M)
         IN  Copies(names \ {n}, Put(M, r, M[tables[n]]), Put(B, n, r))

\* Mutant of DbBeginTransaction: the backup is new Map(this.tables), the
\* Maps of the records being shared.
DbBeginTransactionShallow ==
    /\ IF NotConnected \/ transactionActive
       THEN DbRejects("beginTransaction", "DatabaseError")
       ELSE /\ Store(tables, TRUE, Backup(tables), maps, pending)
            /\ ret' = Ret("beginTransaction", "resolved")
            /\ DbHistory(1)
            /\ UNCHANGED connected
    /\ UNCHANGED <<now, cbVars, rlVars, twVars, rhVars, caVars, eeVars>>

\* Mutant of DbBeginTransaction: transactionActive is not looked at.
DbBeginTransactionNested ==
    /\ IF NotConnected
       THEN DbRejects("beginTransaction", "DatabaseError")
       ELSE LET c == Copies(DOMAIN tables, maps, EmptyMap)
            IN  /\ Store(tables, TRUE, Backup(c.backup), c.maps, pending)
                /\ ret' = Ret("beginTransaction", "resolved")
                /\ DbHistory(1)
                /\ UNCHANGED connected
    /\ UNCHANGED <<now, cbVars, rlVars, twVars, rhVars, caVars, eeVars>>

\* beginTransaction(): it has no await, the whole body runs in the call.
DbBeginTransaction ==
    /\ IF NotConnected \/ transactionActive
       THEN DbRejects("beginTransaction", "DatabaseError")
       ELSE LET c == Copies(DOMAIN tables, maps, EmptyMap)
            IN  /\ Store(tables, TRUE, Backup(c.backup), c.maps, pending)
                /\ ret' = Ret("beginTransaction", "resolved")
                /\ DbHistory(1)
                /\ UNCHANGED connected
    /\ UNCHANGED <<now, cbVars, rlVars, twVars, rhVars, caVars, eeVars>>

\* commit()
DbCommit ==
    /\ IF NotConnected \/ ~transactionActive
       THEN DbRejects("commit", "DatabaseError")
       ELSE /\ Store(tables, FALSE, NoBackup, maps, pending)
            /\ ret' = Ret("commit", "resolved")
            /\ DbHistory(-1)
            /\ UNCHANGED connected
    /\ UNCHANGED <<now, cbVars, rlVars, twVars, rhVars, caVars, eeVars>>

\* rollback()
DbRollback ==
    /\ IF NotConnected \/ ~transactionActive \/ ~transactionBackup.defined
       THEN DbRejects("rollback", "DatabaseError")
       ELSE /\ Store(transactionBackup.tables, FALSE, NoBackup, maps, pending)
            /\ ret' = Ret("rollback", "resolved")
            /\ DbHistory(-1)
            /\ UNCHANGED connected
    /\ UNCHANGED <<now, cbVars, rlVars, twVars, rhVars, caVars, eeVars>>

\* new Database()
InitDB ==
    /\ tables = EmptyMap
    /\ connected = FALSE
    /\ transactionActive = FALSE
    /\ transactionBackup = NoBackup
    /\ maps = EmptyMap
    /\ pending = <<>>
    /\ atBegin = EmptyMap
    /\ openTxns = 0
    /\ undone = FALSE

NextDB ==
    \/ DbConnect
    \/ DbDisconnect
    \/ \E n \in TableNames : DbCreateTable(n)
    \/ \E n \in TableNames : DbDropTable(n)
    \/ \E n \in TableNames, id \in RecordIds, v \in Versions : DbInsert(n, id, v)
    \/ \E n \in TableNames, id \in RecordIds, v \in Versions : DbUpdate(n, id, v)
    \/ \E n \in TableNames, id \in RecordIds : DbDelete(n, id)
    \/ \E n \in TableNames : DbClear(n)
    \/ \E i \in DOMAIN pending : DbResume(i)
    \/ DbBeginTransaction
    \/ DbCommit
    \/ DbRollback

(* ------------------------------- Cache -------------------------------- *)

\* The keys passed to the cache: strings, the empty string among them.
Keys == {"", "a", "b"}
\* The values passed to the cache.
CacheValues == {1, 2}
\* The ttl argument of set, in clock steps: left out, or a number.
NoTtl == -1
Ttls == {NoTtl, 0}

\* What a JavaScript condition makes of a string: the empty string is false.
Truthy(k) == k # ""

CacheEntry(k, v, expiresAt, createdAt) ==
    [key |-> k, value |-> v, expiresAt |-> expiresAt, createdAt |-> createdAt]

\* Map.has(k) and the position of k in the order of insertion.
Has(c, k) == \E i \in DOMAIN c : c[i].key = k
IndexOf(c, k) == CHOOSE i \in DOMAIN c : c[i].key = k
\* Map.delete(k)
Without(c, k) == SelectSeq(c, LAMBDA e : e.key # k)
\* Map.set(k, entry): a key that is present keeps its place.
With(c, entry) ==
    IF Has(c, entry.key)
    THEN [c EXCEPT ![IndexOf(c, entry.key)] = entry]
    ELSE Append(c, entry)

\* ttl !== undefined ? ttl : this.defaultTTL
EffectiveTTL(ttl) == IF ttl # NoTtl THEN ttl ELSE defaultTTL

\* The Map after set(k, v, ttl) on the Map c.  firstKey is the first key of
\* the Map, or undefined when the Map is empty.
SetInto(c, k, v, ttl) ==
    LET full == Len(c) >= maxSize /\ ~Has(c, k)
        evicts == full /\ c # <<>> /\ Truthy(c[1].key)
        kept == IF evicts THEN Tail(c) ELSE c
    IN With(kept, CacheEntry(k, v, now + EffectiveTTL(ttl), now))

\* Date.now() > entry.expiresAt
Expired(entry) == now > entry.expiresAt

\* The outcome of get(k) on the Map c: a hit and its value, or a miss.
Lookup(c, k) ==
    IF Has(c, k) /\ ~Expired(c[IndexOf(c, k)])
    THEN [hit |-> TRUE, value |-> c[IndexOf(c, k)].value]
    ELSE [hit |-> FALSE, value |-> 0]

\* What get(k) does to the fields: an expired entry is deleted.
Gets(k) ==
    /\ hits + misses < MaxLookups
    /\ IF Lookup(cache, k).hit
       THEN /\ hits' = hits + 1
            /\ UNCHANGED misses
       ELSE /\ misses' = misses + 1
            /\ UNCHANGED hits

\* set(k, v, ttl)
CacheSet(k, v, ttl) ==
    /\ cache' = SetInto(cache, k, v, ttl)
    /\ ret' = Ret("set", "returned")
    /\ UNCHANGED <<hits, misses, caConfig>>
    /\ UNCHANGED <<now, cbVars, rlVars, twVars, rhVars, dbVars, eeVars>>

\* get(k)
CacheGet(k) ==
    /\ Gets(k)
    /\ cache' = IF Lookup(cache, k).hit THEN cache ELSE Without(cache, k)
    /\ ret' = RetN("get", IF Lookup(cache, k).hit THEN "hit" ELSE "miss",
                   Lookup(cache, k).value)
    /\ UNCHANGED caConfig
    /\ UNCHANGED <<now, cbVars, rlVars, twVars, rhVars, dbVars, eeVars>>

\* delete(k)
CacheDelete(k) ==
    /\ cache' = Without(cache, k)
    /\ ret' = Ret("delete", IF Has(cache, k) THEN "true" ELSE "false")
    /\ UNCHANGED <<hits, misses, caConfig>>
    /\ UNCHANGED <<now, cbVars, rlVars, twVars, rhVars, dbVars, eeVars>>

\* getOrSet(k, () => v, ttl)
CacheGetOrSet(k, v, ttl) ==
    /\ Gets(k)
    /\ cache' = IF Lookup(cache, k).hit
                THEN cache
                ELSE SetInto(Without(cache, k), k, v, ttl)
    /\ ret' = RetN("getOrSet", IF Lookup(cache, k).hit THEN "hit" ELSE "miss",
                   IF Lookup(cache, k).hit THEN Lookup(cache, k).value ELSE v)
    /\ UNCHANGED caConfig
    /\ UNCHANGED <<now, cbVars, rlVars, twVars, rhVars, dbVars, eeVars>>

\* The Map after entries.forEach(({key, value, ttl}) => this.set(...)).
RECURSIVE SetAll(_, _)
SetAll(c, entries) ==
    IF entries = <<>>
    THEN c
    ELSE SetAll(SetInto(c, entries[1].key, entries[1].value, entries[1].ttl),
                Tail(entries))

\* The arguments of setMultiple: up to two entries of one value and no ttl.
EntryLists ==
    LET Entries == [key : Keys, value : {1}, ttl : {NoTtl}]
    IN {<<>>} \cup {<<x>> : x \in Entries}
              \cup {<<x, y>> : x \in Entries, y \in Entries}

\* setMultiple(entries)
CacheSetMultiple(entries) ==
    /\ cache' = SetAll(cache, entries)
    /\ ret' = RetN("setMultiple", "returned", Len(entries))
    /\ UNCHANGED <<hits, misses, caConfig>>
    /\ UNCHANGED <<now, cbVars, rlVars, twVars, rhVars, dbVars, eeVars>>

\* Date.now() advances by TickMs.
TickCache ==
    /\ now < MaxCacheTime
    /\ now' = now + 1
    /\ ret' = Ret("tick", "none")
    /\ UNCHANGED <<cbVars, rlVars, twVars, rhVars, appVars>>

\* new Cache({ttl, maxSize})
InitCache ==
    /\ cache = <<>>
    /\ defaultTTL = CacheTtl
    /\ maxSize \in 1..MaxCacheSize
    /\ hits = 0
    /\ misses = 0

\* A cache of one entry that is never used.
DefaultCache ==
    /\ InitCache
    /\ maxSize = 1

NextCache ==
    \/ \E k \in Keys, v \in CacheValues, ttl \in Ttls : CacheSet(k, v, ttl)
    \/ \E k \in Keys : CacheGet(k)
    \/ \E k \in Keys : CacheDelete(k)
    \/ \E k \in Keys, v \in CacheValues, ttl \in Ttls : CacheGetOrSet(k, v, ttl)
    \/ \E entries \in EntryLists : CacheSetMultiple(entries)
    \/ TickCache

(* ---------------------------- EventEmitter ----------------------------- *)

\* The event names and the listener functions passed to the emitter.  A
\* listener returns nothing or a promise, and calls no method of the emitter.
Events == {"x"}
ListenerIds == {1, 2}

\* this.onceEvents.get(event), as the listeners it holds.
OnceOf(e) == IF e \in DOMAIN onceEvents THEN onceEvents[e] ELSE {}

\* An emit call suspended in await Promise.all: at line 77 ("regular") or at
\* line 84 ("once"), with the once listeners registered when it was called
\* and those it has invoked.
Emit(e, pc, atStart, got) ==
    [event |-> e, pc |-> pc, atStart |-> atStart, got |-> got]

\* The once listeners in ls are invoked.
Invoked(ls) ==
    [l \in ListenerIds |-> IF l \in ls THEN onceCalls[l] + 1 ELSE onceCalls[l]]

\* on(e, l)
EeOn(e, l) ==
    LET sets == IF e \in DOMAIN events THEN events ELSE Put(events, e, {})
    IN /\ IF Cardinality(sets[e]) >= maxListeners
          THEN /\ events' = sets
               /\ ret' = Ret("on", "Error")
          ELSE /\ events' = [sets EXCEPT ![e] = @ \cup {l}]
               /\ ret' = Ret("on", "returned")
       /\ UNCHANGED <<onceEvents, maxListeners, emits, onceCalls, missed>>
       /\ UNCHANGED <<now, cbVars, rlVars, twVars, rhVars, dbVars, caVars>>

\* once(e, l), for a listener that no emit has invoked.
EeOnce(e, l) ==
    /\ onceCalls[l] = 0
    /\ onceEvents' = Put(onceEvents, e, OnceOf(e) \cup {l})
    /\ ret' = Ret("once", "returned")
    /\ UNCHANGED <<events, maxListeners, emits, onceCalls, missed>>
    /\ UNCHANGED <<now, cbVars, rlVars, twVars, rhVars, dbVars, caVars>>

\* off(e, l)
EeOff(e, l) ==
    /\ events' = IF e \in DOMAIN events
                 THEN [events EXCEPT ![e] = @ \ {l}]
                 ELSE events
    /\ onceEvents' = IF e \in DOMAIN onceEvents
                     THEN [onceEvents EXCEPT ![e] = @ \ {l}]
                     ELSE onceEvents
    /\ emits' = [i \in DOMAIN emits |->
                    IF emits[i].event = e
                    THEN [emits[i] EXCEPT !.atStart = @ \ {l}]
                    ELSE emits[i]]
    /\ ret' = Ret("off", "returned")
    /\ UNCHANGED <<maxListeners, onceCalls, missed>>
    /\ UNCHANGED <<now, cbVars, rlVars, twVars, rhVars, dbVars, caVars>>

\* emit, lines 81-84 and the return of line 87 when the event has no once
\* listeners: others are the other calls in flight.
EmitOnce(e, atStart, others) ==
    IF e \in DOMAIN onceEvents
    THEN /\ onceCalls' = Invoked(onceEvents[e])
         /\ emits' = Append(others, Emit(e, "once", atStart, onceEvents[e]))
         /\ ret' = Ret("emit", "pending")
         /\ UNCHANGED missed
    ELSE /\ emits' = others
         /\ ret' = Ret("emit", "resolved")
         /\ missed' = (missed \/ atStart # {})
         /\ UNCHANGED onceCalls

\* emit(e, data), up to its first await.
EeEmit(e) ==
    /\ Len(emits) < MaxEmits
    /\ IF e \in DOMAIN events
       THEN /\ emits' = Append(emits, Emit(e, "regular", OnceOf(e), {}))
            /\ ret' = Ret("emit", "pending")
            /\ UNCHANGED <<onceCalls, missed>>
       ELSE EmitOnce(e, OnceOf(e), emits)
    /\ UNCHANGED <<eeFields, maxListeners>>
    /\ UNCHANGED <<now, cbVars, rlVars, twVars, rhVars, dbVars, caVars>>

\* The promises an emit call awaits have settled: the call goes on after
\* line 77 or after line 84.
EeResume(i) ==
    /\ IF emits[i].pc = "regular"
       THEN /\ EmitOnce(emits[i].event, emits[i].atStart, RemoveAt(emits, i))
            /\ UNCHANGED onceEvents
       ELSE /\ onceEvents' = Del(onceEvents, emits[i].event)
            /\ emits' = RemoveAt(emits, i)
            /\ ret' = Ret("emit", "resolved")
            /\ missed' = (missed \/ ~(emits[i].atStart \subseteq emits[i].got))
            /\ UNCHANGED onceCalls
    /\ UNCHANGED <<events, maxListeners>>
    /\ UNCHANGED <<now, cbVars, rlVars, twVars, rhVars, dbVars, caVars>>

\* emitSync(e, data)
EeEmitSync(e) ==
    /\ onceCalls' = Invoked(OnceOf(e))
    /\ onceEvents' = Del(onceEvents, e)
    /\ ret' = Ret("emitSync", "returned")
    /\ UNCHANGED <<events, maxListeners, emits, missed>>
    /\ UNCHANGED <<now, cbVars, rlVars, twVars, rhVars, dbVars, caVars>>

\* new EventEmitter(maxListeners)
InitEE ==
    /\ events = EmptyMap
    /\ onceEvents = EmptyMap
    /\ maxListeners \in 1..MaxListeners
    /\ emits = <<>>
    /\ onceCalls = [l \in ListenerIds |-> 0]
    /\ missed = FALSE

\* An emitter of one listener that is never used.
DefaultEE ==
    /\ InitEE
    /\ maxListeners = 1

NextEE ==
    \/ \E e \in Events, l \in ListenerIds : EeOn(e, l)
    \/ \E e \in Events, l \in ListenerIds : EeOnce(e, l)
    \/ \E e \in Events, l \in ListenerIds : EeOff(e, l)
    \/ \E e \in Events : EeEmit(e)
    \/ \E i \in DOMAIN emits : EeResume(i)
    \/ \E e \in Events : EeEmitSync(e)

\* The classes besides the resilience utilities, newly constructed.
InitApp == InitDB /\ DefaultCache /\ DefaultEE

(* --------------------------- specifications --------------------------- *)

\* The breaker under every configuration, beside one idle limiter.
InitSpecCB ==
    /\ now = 0
    /\ ret = Ret("new", "none")
    /\ InitCB
    /\ InitRL
    /\ maxTokens = 1
    /\ refillRate = 5
    /\ DefaultRH
    /\ InitApp

SpecCB == InitSpecCB /\ [][NextCB]_vars

\* The breaker under every configuration, through two open periods.
SpecRecovery == InitSpecCB /\ [][NextRecovery]_vars

\* The breaker with one caller who keeps calling, a clock that keeps
\* running and operations that settle.
SpecHeal ==
    /\ InitSpecCB
    /\ [][NextHeal]_vars
    /\ WF_vars(TickHeal)
    /\ WF_vars(HealExecuteInvoke)
    /\ WF_vars(\E i \in DOMAIN racing : OpResolve(i))
    /\ WF_vars(LateSettle)

\* The limiter under every configuration, beside one idle breaker.
InitSpecRL ==
    /\ now = 0
    /\ ret = Ret("new", "none")
    /\ InitRL
    /\ InitCB
    /\ failureThreshold = 1
    /\ successThreshold = 1
    /\ DefaultRH
    /\ InitApp

SpecRL == InitSpecRL /\ [][NextRL]_vars

\* The limiter on which reset is not called, its grants counted, beside one
\* idle breaker.
InitSpecRate ==
    /\ now = 0
    /\ ret = Ret("new", "none")
    /\ NewRL
    /\ granted = 0
    /\ InitCB
    /\ failureThreshold = 1
    /\ successThreshold = 1
    /\ DefaultRH
    /\ InitApp

SpecRate == InitSpecRate /\ [][NextRate]_vars

\* The three utilities nested: a handler with the default shouldRetry, a
\* limiter of up to MaxRetries + 1 tokens and a breaker.
InitSpecStack ==
    /\ now = 0
    /\ ret = Ret("new", "none")
    /\ InitRH
    /\ shouldRetry = "default"
    /\ onRetry = FALSE
    /\ maxTokens \in 1..(MaxRetries + 1)
    /\ refillRate \in Rates
    /\ FreshRL
    /\ granted = 0
    /\ InitCB
    /\ successThreshold = 1
    /\ InitApp

SpecStack == InitSpecStack /\ [][NextStack]_vars

\* A limiter of MaxCapacity + 1 tokens and 5 tokens per second, with callers
\* that keep coming: the clock keeps running and every sleep ends.
InitSpecContend ==
    /\ now = 0
    /\ ret = Ret("new", "none")
    /\ maxTokens = MaxCapacity + 1
    /\ refillRate = 5
    /\ FreshRL
    /\ granted = NotMetered
    /\ InitCB
    /\ failureThreshold = 1
    /\ successThreshold = 1
    /\ DefaultRH
    /\ InitApp

SpecContend ==
    /\ InitSpecContend
    /\ [][NextContend]_vars
    /\ WF_vars(TickContend)
    /\ \A e \in Waiting : WF_vars(Wake(e))

\* The limiter and its twin under every configuration.
SpecTwin == InitSpecRL /\ [][NextTwin]_vars

\* One caller of acquire.  The timers of the event loop fire and the
\* continuations of the sleeps that are over run: the clock advances and a
\* caller whose sleep is over goes round the loop.
SpecAlone ==
    /\ InitSpecRL
    /\ [][NextAlone]_vars
    /\ WF_vars(TickLong)
    /\ WF_vars(\E e \in Waiting : Wake(e))

\* The handler under every configuration, beside one idle breaker and one
\* idle limiter.
InitSpecRH ==
    /\ now = 0
    /\ ret = Ret("new", "none")
    /\ InitRH
    /\ InitCB
    /\ failureThreshold = 1
    /\ successThreshold = 1
    /\ InitRL
    /\ maxTokens = 1
    /\ refillRate = 5
    /\ InitApp

SpecRH == InitSpecRH /\ [][NextRH]_vars

\* The handler under every maxRetries, shouldRetry and onRetry, with the
\* delays of the defaults in proportion (base 2, maxDelay 3 * initialDelay).
InitSpecSync ==
    /\ InitSpecRH
    /\ initialDelay = TickMs
    /\ maxDelay = 3 * TickMs
    /\ exponentialBase = 2

SpecSync == InitSpecSync /\ [][NextSync]_vars

\* The handler under every maxRetries, with the shouldRetry and onRetry
\* options.
InitSpecWrap ==
    /\ InitSpecSync
    /\ shouldRetry = "custom"
    /\ onRetry

SpecWrap == InitSpecWrap /\ [][NextWrap]_vars

\* The database, beside the idle utilities.
InitSpecDB ==
    /\ now = 0
    /\ ret = Ret("new", "none")
    /\ InitDB
    /\ DefaultCache
    /\ DefaultEE
    /\ InitCB
    /\ failureThreshold = 1
    /\ successThreshold = 1
    /\ InitRL
    /\ maxTokens = 1
    /\ refillRate = 5
    /\ DefaultRH

SpecDB == InitSpecDB /\ [][NextDB]_vars

\* The utilities besides the Database, Cache and EventEmitter, idle.
IdleUtils ==
    /\ InitCB
    /\ failureThreshold = 1
    /\ successThreshold = 1
    /\ InitRL
    /\ maxTokens = 1
    /\ refillRate = 5
    /\ DefaultRH

\* The cache under every maxSize, beside the idle utilities.
InitSpecCache ==
    /\ now = 0
    /\ ret = Ret("new", "none")
    /\ InitCache
    /\ InitDB
    /\ DefaultEE
    /\ IdleUtils

SpecCache == InitSpecCache /\ [][NextCache]_vars

\* The emitter under every maxListeners, beside the idle utilities.
InitSpecEE ==
    /\ now = 0
    /\ ret = Ret("new", "none")
    /\ InitEE
    /\ InitDB
    /\ DefaultCache
    /\ IdleUtils

SpecEE == InitSpecEE /\ [][NextEE]_vars

(* ------------------- properties of the CircuitBreaker ------------------ *)

\* The step is one execute call, up to its first suspension.
ExecuteCalled == nCalls' = nCalls + 1
\* The step completes an execute call with an operation error or a timeout.
FailureCompleted == ret'.outcome \in {"opError", "timeout"}
\* The step completes an execute call with the operation's value.
SuccessCompleted == ret'.outcome = "value"

\* C1: while the breaker is OPEN and now < nextAttempt, every execute call is
\* rejected with the circuit-open error, does not invoke the operation (the
\* invocation count stays what it was) and starts no race.
C1_OpenRejects ==
    [][(state = "OPEN" /\ now < nextAttempt /\ ExecuteCalled)
        => /\ ret'.outcome = "circuitOpen"
           /\ invoked' = invoked
           /\ racing' = racing]_vars

\* Three calls in a row were rejected and the operation was never invoked.
C1_Witness ==
    /\ ret = Ret("execute", "circuitOpen")
    /\ nCalls = 3
    /\ invoked = 0
    /\ state = "OPEN"

\* C2: in CLOSED the failure count is the number of failed calls since the
\* last success or reset and is below failureThreshold; a failure that makes
\* it reach failureThreshold opens the breaker, an earlier one leaves it
\* CLOSED with the count one higher; a success leaves it CLOSED with count 0.
C2_FailureThreshold ==
    [][/\ (state = "CLOSED" /\ FailureCompleted)
            => /\ failureCount = streak
               /\ streak < failureThreshold
               /\ failureCount' = streak + 1
               /\ state' = IF streak + 1 = failureThreshold
                           THEN "OPEN" ELSE "CLOSED"
       /\ (state = "CLOSED" /\ SuccessCompleted)
            => /\ failureCount' = 0
               /\ state' = "CLOSED"]_vars

\* The second of two consecutive failures opened a breaker of threshold 2.
C2_Witness ==
    /\ failureThreshold = 2
    /\ streak = 2
    /\ ret = Ret("settle", "opError")
    /\ notes = << <<"CLOSED", "OPEN">> >>
    /\ state = "OPEN"

\* C3: time alone never changes the breaker; OPEN is left for HALF_OPEN only
\* by an execute call made at or after nextAttempt; and such a call sets
\* HALF_OPEN, announces it, and invokes the operation in the same step.
C3_LazyHalfOpen ==
    [][/\ (now' # now) => UNCHANGED cbFields
       /\ (state = "OPEN" /\ state' = "HALF_OPEN")
            => (ExecuteCalled /\ now >= nextAttempt)
       /\ (state = "OPEN" /\ now >= nextAttempt /\ ExecuteCalled)
            => /\ state' = "HALF_OPEN"
               /\ notes' = << <<"OPEN", "HALF_OPEN">> >>
               /\ invoked' = invoked + 1
               /\ Len(racing') = Len(racing) + 1]_vars

\* The breaker stayed OPEN past nextAttempt and the next call made it
\* HALF_OPEN and invoked the operation.
C3_Witness ==
    /\ state = "HALF_OPEN"
    /\ ret = Ret("execute", "pending")
    /\ notes = << <<"OPEN", "HALF_OPEN">> >>
    /\ now > nextAttempt
    /\ openedBy = "failure"

\* C4: in a HALF_OPEN period that follows an opening by a failure, the
\* success count is the number of successes completed in the period and is
\* below successThreshold; the success that makes it reach successThreshold
\* closes the breaker with both counters 0, an earlier one leaves it
\* HALF_OPEN with the count one higher.
C4_HalfOpenSuccesses ==
    [][(state = "HALF_OPEN" /\ openedBy = "failure" /\ SuccessCompleted)
        => /\ successCount = hoSucc
           /\ hoSucc < successThreshold
           /\ IF hoSucc + 1 = successThreshold
              THEN state' = "CLOSED" /\ failureCount' = 0 /\ successCount' = 0
              ELSE state' = "HALF_OPEN" /\ successCount' = hoSucc + 1]_vars

\* The second success of a HALF_OPEN period closed a breaker of
\* successThreshold 2 that a failure had opened.
C4_Witness ==
    /\ successThreshold = 2
    /\ hoSucc = 2
    /\ openedBy = "failure"
    /\ ret = Ret("settle", "value")
    /\ notes = << <<"HALF_OPEN", "CLOSED">> >>
    /\ state = "CLOSED" /\ failureCount = 0 /\ successCount = 0

\* C5: a failed call that completes in HALF_OPEN opens the breaker, zeroes
\* successCount and sets nextAttempt = now + resetTimeout, so that the
\* circuit is open for calls made before that time.
C5_HalfOpenFailure ==
    [][(state = "HALF_OPEN" /\ FailureCompleted)
        => /\ state' = "OPEN"
           /\ successCount' = 0
           /\ nextAttempt' = now + ResetTimeout
           /\ CircuitOpen']_vars

\* A failure in HALF_OPEN after one counted success reopened the breaker.
C5_Witness ==
    /\ successThreshold = 2
    /\ hoSucc = 1
    /\ ret = Ret("settle", "opError")
    /\ notes = << <<"HALF_OPEN", "OPEN">> >>
    /\ state = "OPEN" /\ successCount = 0

\* C6: every step notifies onStateChange(state, state') exactly once when it
\* changes the state and not at all when it does not.
C6_OneNotificationPerChange ==
    [][notes' = IF state' # state THEN << <<state, state'>> >> ELSE <<>>]_vars

\* reset() of an OPEN breaker announced OPEN -> CLOSED.
C6_Witness ==
    /\ ret = Ret("reset", "none")
    /\ notes = << <<"OPEN", "CLOSED">> >>
    /\ state = "CLOSED"

\* C7: a timeout is thrown only for a call whose timer is due and whose
\* operation is still pending, and it is counted as a failure: failureCount
\* goes up by one, a CLOSED breaker opens iff the count reaches
\* failureThreshold, a HALF_OPEN breaker goes back to OPEN.
C7_TimeoutCountsAsFailure ==
    [][(ret'.outcome = "timeout")
        => /\ \E i \in 1..Len(racing) :
                racing[i] <= now /\ racing' = RemoveAt(racing, i)
           /\ failureCount' = failureCount + 1
           /\ state = "CLOSED" =>
                state' = IF failureCount + 1 >= failureThreshold
                         THEN "OPEN" ELSE "CLOSED"
           /\ state = "HALF_OPEN" => state' = "OPEN"
           /\ state = "OPEN" => state' = "OPEN"]_vars

\* A timeout in CLOSED opened the breaker.
C7_Witness ==
    /\ ret = Ret("timer", "timeout")
    /\ notes = << <<"CLOSED", "OPEN">> >>
    /\ state = "OPEN"
    /\ abandoned = 1

\* C8: every invoked call has applied at most one outcome (onSuccess or
\* onFailure ran once for each call that is no longer racing, never for one
\* that is), and an abandoned operation that settles late changes no field
\* of the breaker and notifies nobody.
C8_OneOutcomePerCall ==
    /\ [](applied + Len(racing) = invoked)
    /\ [][(abandoned' < abandoned) => (UNCHANGED cbFields /\ notes' = <<>>)]_vars

\* An operation abandoned by a timeout settled later, the breaker being
\* back in CLOSED by then.
C8_Witness ==
    /\ ret = Ret("late", "ignored")
    /\ abandoned = 0
    /\ state = "CLOSED"
    /\ applied = invoked
    /\ invoked = 2

\* The step is a call of reset or of forceClose.
ResetCalled == ret'.op \in {"reset", "forceClose"}

\* C23: forceOpen leaves the breaker OPEN with nextAttempt = now +
\* resetTimeout, whatever its state was; an OPEN breaker whose nextAttempt is
\* ahead stays OPEN, its nextAttempt moving no earlier, in every step but
\* reset and forceClose; and an execute call on it is rejected with the
\* circuit-open error and invokes nothing.  So from a forceOpen at time t
\* until t + resetTimeout, or until reset, every execute is rejected.
C23_ForceOpen ==
    [][/\ (ret'.op = "forceOpen")
            => /\ state' = "OPEN"
               /\ nextAttempt' = now' + ResetTimeout
               /\ UNCHANGED <<failureCount, successCount>>
       /\ (state = "OPEN" /\ now' < nextAttempt /\ ~ResetCalled)
            => /\ state' = "OPEN"
               /\ nextAttempt' >= nextAttempt
       /\ (state = "OPEN" /\ now < nextAttempt /\ ExecuteCalled)
            => /\ ret' = Ret("execute", "circuitOpen")
               /\ invoked' = invoked]_vars

\* forceOpen was called on a breaker that had been HALF_OPEN, the clock
\* advanced by less than resetTimeout, and the execute call made then was
\* rejected.
C23_Witness ==
    /\ ret = Ret("execute", "circuitOpen")
    /\ openedBy = "force"
    /\ state = "OPEN"
    /\ now > 0
    /\ nextAttempt = now + 1
    /\ hoSucc > 0

\* C24: reset and forceClose leave the breaker CLOSED with failureCount = 0,
\* successCount = 0 and nextAttempt = now, whatever it was before, and
\* notify only when the state was not CLOSED; a reset or forceClose that
\* follows another changes no field and notifies nobody; the execute call
\* that follows one invokes the operation.
C24_ResetCloses ==
    [][/\ ResetCalled
            => /\ state' = "CLOSED"
               /\ failureCount' = 0
               /\ successCount' = 0
               /\ nextAttempt' = now'
               /\ notes' = IF state = "CLOSED" THEN <<>>
                           ELSE << <<state, "CLOSED">> >>
       /\ (ResetCalled /\ ret.op \in {"reset", "forceClose"})
            => /\ UNCHANGED cbFields
               /\ notes' = <<>>
       /\ (ret.op \in {"reset", "forceClose"} /\ ExecuteCalled)
            => /\ ret' = Ret("execute", "pending")
               /\ invoked' = invoked + 1
               /\ state' = "CLOSED"]_vars

\* A breaker that had been forced OPEN, and whose nextAttempt was still
\* ahead, was reset, and the call made next invoked the operation.
C24_Witness ==
    /\ ret = Ret("execute", "pending")
    /\ openedBy = "force"
    /\ state = "CLOSED"
    /\ nextAttempt = now
    /\ now < ResetTimeout
    /\ invoked > 0

\* C25: an execute call either is rejected with the circuit-open error,
\* the breaker being OPEN before nextAttempt and the operation not invoked,
\* or invokes the operation once and starts the race; a call leaves the
\* race in one of three ways only: with the value of the operation, with
\* its error, or with the timeout error when its timer is due; the
\* operation is invoked in no other step.
C25_FourOutcomes ==
    [][/\ ExecuteCalled
            => \/ /\ state = "OPEN" /\ now < nextAttempt
                  /\ ret' = Ret("execute", "circuitOpen")
                  /\ invoked' = invoked
                  /\ racing' = racing
               \/ /\ ~(state = "OPEN" /\ now < nextAttempt)
                  /\ ret' = Ret("execute", "pending")
                  /\ invoked' = invoked + 1
                  /\ racing' = Append(racing, now + Timeout)
       /\ (racing' # racing /\ ~ExecuteCalled)
            => /\ \E i \in 1..Len(racing) : racing' = RemoveAt(racing, i)
               /\ ret'.outcome \in {"value", "opError", "timeout"}
               /\ (ret'.outcome = "timeout")
                    => \E i \in 1..Len(racing) :
                          racing[i] <= now /\ racing' = RemoveAt(racing, i)
               /\ applied' = applied + 1
       /\ (invoked' # invoked) => ExecuteCalled
       /\ (ret'.outcome \in {"value", "opError", "timeout"})
            => Len(racing') = Len(racing) - 1]_vars

\* Of four calls, one was rejected and three invoked the operation; the
\* last of these ended with the error of the operation.
C25_Witness ==
    /\ ret = Ret("settle", "opError")
    /\ nCalls = 4
    /\ invoked = 3
    /\ applied = 3
    /\ racing = <<>>

(* -------------------- properties of the RateLimiter -------------------- *)

\* What refill makes of the token count at the start of the step, computed
\* from the fields: min(capacity, tokens + elapsed * rate).
Refilled ==
    MinD[FromInt[maxTokens],
         AddD[tokens, TokensAdded[now - lastRefill, refillRate]]]

\* The step is a call of tryAcquire, direct or from the loop of acquire.
TryAcquireCalled == ret'.outcome \in {"granted", "denied"}

\* C9: the token count is always between 0 and the capacity, and a call is
\* granted only tokens that are there: the tokens it takes come off the
\* refilled count, which they do not exceed, whoever else is polling.
C9_TokensWithinBucket ==
    /\ [](Geq[tokens, FromInt[0]] /\ Geq[FromInt[maxTokens], tokens])
    /\ [][(ret'.outcome = "granted")
            => /\ Geq[Refilled, FromInt[ret'.n]]
               /\ tokens' = Minus[Refilled, FromInt[ret'.n]]]_vars

\* Of two callers in acquire(1) on a bucket of one token, one has just been
\* granted the token and the other is still waiting.
C9_Witness ==
    /\ ret = RetN("acquire", "granted", 1)
    /\ ~Geq[tokens, FromInt[1]]
    /\ callers[[pc |-> "ready", kind |-> "acquire", n |-> 1]] = 1
    /\ Suspended = 1

\* C10: tryAcquire(n) returns true exactly when the refilled count r is at
\* least n, and then leaves r - n tokens; otherwise it leaves r; either way
\* lastRefill becomes now.
C10_TryAcquire ==
    [][TryAcquireCalled
        => /\ (ret'.outcome = "granted") <=> Geq[Refilled, FromInt[ret'.n]]
           /\ tokens' = IF Geq[Refilled, FromInt[ret'.n]]
                        THEN Minus[Refilled, FromInt[ret'.n]]
                        ELSE Refilled
           /\ lastRefill' = now]_vars

\* tryAcquire(1) was denied on a bucket that had refilled to half a token:
\* the half token is still there and lastRefill is now.
C10_Witness ==
    /\ ret = RetN("tryAcquire", "denied", 1)
    /\ Plus[tokens, tokens] = FromInt[1]
    /\ lastRefill = now
    /\ now >= 1

\* C12: a caller alone in acquire(n) returns in the end; acquire returns
\* only in a step that is a granted tryAcquire(n) of it, which takes exactly
\* n tokens off the refilled count, and every such step returns.
C12_AcquireReturns ==
    /\ (Suspended = 1) ~> (Suspended = 0)
    /\ [][/\ (Suspended' < Suspended \/ ret'.op = "acquire")
              => Suspended' = IF ret'.outcome = "granted" THEN 0 ELSE 1
          /\ (ret'.op = "acquire" /\ ret'.outcome = "granted")
              => /\ Geq[Refilled, FromInt[ret'.n]]
                 /\ tokens' = Minus[Refilled, FromInt[ret'.n]]
          /\ (ret'.op = "acquire" /\ ret'.outcome = "denied")
              => tokens' = Refilled]_vars

\* acquire(1) has returned from a bucket of one token per second it found
\* empty: the call was made in the first 100 ms and ends after a second.
C12_Witness ==
    /\ ret = RetN("acquire", "granted", 1)
    /\ refillRate = 1
    /\ now >= TicksPerSecond
    /\ Suspended = 0

\* C13: the fn of execute is invoked in the step in which the n tokens are
\* granted to the call and in no other, the grant taking exactly n tokens
\* off the refilled count; when fn settles, execute settles with the
\* outcome of fn and no field of the limiter changes.
C13_ExecuteAfterGrant ==
    [][/\ (callers'[Running] = callers[Running] + 1)
            <=> (ret'.op = "execute" /\ ret'.outcome = "granted")
       /\ (ret'.op = "execute" /\ ret'.outcome = "granted")
            => tokens' = Minus[Refilled, FromInt[ret'.n]]
       /\ (callers'[Running] < callers[Running])
            => /\ ret'.op = "fn"
               /\ callers'[Running] = callers[Running] - 1
       /\ (ret'.op = "fn")
            => /\ ret'.outcome \in {"value", "error"}
               /\ UNCHANGED <<rlFields, rlConfig>>]_vars

\* execute(fn, 1) took the one token of the bucket and fn failed: the token
\* is gone.
C13_Witness ==
    /\ ret = Ret("fn", "error")
    /\ maxTokens = 1
    /\ tokens = FromInt[0]
    /\ lastRefill = now
    /\ Suspended = 0

\* C15: there is one timer when intervalId is set and none when it is not;
\* startAutoRefill leaves a running timer alone and otherwise creates one;
\* after stopAutoRefill and after destroy there is none.
C15_OneTimer ==
    /\ [](Len(timers) = IF intervalId THEN 1 ELSE 0)
    /\ [][/\ (ret'.op = "startAutoRefill")
              => /\ Len(timers') = 1
                 /\ (Len(timers) = 1) => (timers' = timers)
          /\ (ret'.op \in {"stopAutoRefill", "destroy"})
              => timers' = <<>>]_vars

\* startAutoRefill was called on a limiter whose timer had been running
\* for a clock step: there is still one timer, the old one.
C15_Witness ==
    /\ ret = Ret("startAutoRefill", "none")
    /\ timers = <<TRUE>>
    /\ intervalId

(* ----------------- properties of the refill arithmetic ----------------- *)

\* C11: with no acquisition since the mark, getAvailableTokens returns the
\* whole tokens of min(capacity, marked count + elapsed seconds * rate),
\* whatever the number of refills made in between.  The right-hand side is
\* computed without rounding, in tenths of 2^-56 token.
C11_RefillOverInterval ==
    (ret.op = "getAvailableTokens")
        => ret.n = Min(maxTokens,
                       Floor[Plus[Times[mark.tokens, TicksPerSecond],
                                  FromInt[(now - mark.at) * refillRate]]]
                           \div TicksPerSecond)

\* C14: every call returns on the limiter whose auto-refill timer may be
\* running what it returns on the twin that has no timer.
C14_AutoRefillUnobservable ==
    (ret.op \in {"tryAcquire", "getAvailableTokens"}) => (ret = twin.ret)

(* -------------------- properties of the RetryHandler ------------------- *)

\* The error is one shouldRetry accepts.
Accepts(error) == shouldRetry = "default" \/ error.retryable

\* Every invocation of fn that is over, in the call, failed with an error
\* shouldRetry accepts.
FailedSoFar(k) ==
    \A i \in 1..k : ~outcomes[i].ok /\ Accepts(outcomes[i].error)

\* C16: while fn fails every time with errors shouldRetry accepts, fn is
\* invoked at most maxRetries + 1 times; the call is rejected when, and
\* only when, the invocation maxRetries + 1 has failed, and it is rejected
\* with the error of that last invocation.
C16_AlwaysFailing ==
    FailedSoFar(Len(outcomes)) =>
        /\ Len(started) <= maxRetries + 1
        /\ promise.state # "fulfilled"
        /\ (promise.state = "rejected") <=> (Len(outcomes) = maxRetries + 1)
        /\ (promise.state = "rejected") =>
              /\ Len(started) = maxRetries + 1
              /\ outcomes[Len(outcomes)].error.id = Len(started)
              /\ promise = Rejected(outcomes[Len(outcomes)].error)
              /\ rhPc = "idle"

\* fn failed MaxRetries + 1 times, the custom shouldRetry accepting each
\* error, and the call was rejected.
C16_Witness ==
    /\ maxRetries = MaxRetries
    /\ shouldRetry = "custom"
    /\ Len(outcomes) = MaxRetries + 1
    /\ FailedSoFar(Len(outcomes))
    /\ promise.state = "rejected"

\* C17: when fn succeeds after j failures with errors shouldRetry accepts,
\* j <= maxRetries, the call returns the value of that invocation, fn
\* has been invoked j + 1 times and is not invoked again; and before that,
\* after j <= maxRetries such failures, the call has not ended.
C17_SucceedsAfterFailures ==
    LET k == Len(outcomes)
    IN  /\ (k > 0 /\ outcomes[k].ok) =>
              /\ FailedSoFar(k - 1)
              /\ k - 1 <= maxRetries
              /\ promise = Fulfilled(k)
              /\ Len(started) = k
              /\ rhPc = "idle"
        /\ (Len(started) > 0 /\ FailedSoFar(k) /\ k <= maxRetries) =>
              /\ promise.state = "pending"
              /\ rhPc \in {"awaiting", "sleeping"}
              /\ Len(started) \in {k, k + 1}

\* fn failed MaxRetries times and succeeded on the invocation
\* MaxRetries + 1: the call returned its value.
C17_Witness ==
    /\ maxRetries = MaxRetries
    /\ Len(outcomes) = MaxRetries + 1
    /\ outcomes[Len(outcomes)].ok
    /\ promise = Fulfilled(MaxRetries + 1)

\* C18: when an invocation of fn fails with an error the custom shouldRetry
\* refuses, the call is rejected with that error in the same step: fn is
\* not invoked again, onRetry is not called for the failure and no delay
\* is computed for it.
C18_NonRetryableEnds ==
    /\ LET k == Len(outcomes)
       IN  (/\ k > 0
            /\ ~outcomes[k].ok
            /\ shouldRetry = "custom"
            /\ ~outcomes[k].error.retryable) =>
              /\ promise = Rejected(outcomes[k].error)
              /\ outcomes[k].error.id = k
              /\ rhPc = "idle"
              /\ Len(started) = k
              /\ Len(slept) = k - 1
              /\ Len(retried) = IF onRetry THEN k - 1 ELSE 0
    /\ \A i \in 1..(Len(outcomes) - 1) :
          ~outcomes[i].ok /\ Accepts(outcomes[i].error)

\* The second invocation failed with an error shouldRetry refuses, before
\* the budget of two retries was used up.
C18_Witness ==
    /\ maxRetries = 2
    /\ shouldRetry = "custom"
    /\ onRetry
    /\ Len(outcomes) = 2
    /\ ~outcomes[2].ok
    /\ ~outcomes[2].error.retryable
    /\ promise.state = "rejected"
    /\ slept = <<initialDelay>>

\* C19: with the onRetry option, onRetry has been called once for each
\* re-attempt made or being slept for, and for nothing else: the i-th call
\* was given the attempt number i and the error of the i-th failed
\* invocation, and a call that is over made one onRetry call less than it
\* made invocations of fn.
C19_OnRetryPerReattempt ==
    onRetry =>
        /\ Len(retried) = CASE rhPc = "sleeping" -> Len(started)
                            [] Len(started) = 0 -> 0
                            [] OTHER -> Len(started) - 1
        /\ \A i \in DOMAIN retried :
              /\ retried[i].attempt = i
              /\ ~outcomes[i].ok
              /\ retried[i].error = outcomes[i].error
              /\ retried[i].error.id = i

\* A call with two retries ended with the failure of the third invocation:
\* onRetry was called twice.
C19_Witness ==
    /\ onRetry
    /\ rhPc = "idle"
    /\ promise.state = "rejected"
    /\ Len(started) = 3
    /\ Len(outcomes) = 3
    /\ Len(retried) = 2

\* C20: the re-attempt i (from 0) is made no earlier than
\* min(initialDelay * exponentialBase^i, maxDelay) after the failure before
\* it; that is the delay slept for, it is at most maxDelay, the first is
\* min(initialDelay, maxDelay), and with exponentialBase >= 1 no delay is
\* shorter than the one before.
C20_BackoffDelays ==
    /\ \A i \in DOMAIN slept :
          /\ slept[i] = Min(initialDelay * Pow(exponentialBase, i - 1),
                            maxDelay)
          /\ slept[i] <= maxDelay
          /\ (i = 1) => (slept[i] = Min(initialDelay, maxDelay))
          /\ (i > 1 /\ exponentialBase >= 1) => (slept[i - 1] <= slept[i])
    /\ \A i \in DOMAIN started :
          (i > 1) =>
              started[i] * TickMs >=
                  outcomes[i - 1].at * TickMs
                  + Min(initialDelay * Pow(exponentialBase, i - 2), maxDelay)

\* Two re-attempts with growing delays, the second cut to maxDelay; the
\* second was made as soon as its delay allowed.
C20_Witness ==
    /\ exponentialBase = 2
    /\ slept = <<2 * TickMs, 3 * TickMs>>
    /\ Len(started) = 3
    /\ started[3] * TickMs = outcomes[2].at * TickMs + maxDelay

\* How the invocations of fn ended in the execute call, as the outcomes of
\* FnOutcomes.
Fed ==
    [i \in DOMAIN outcomes |->
        IF outcomes[i].ok THEN "value"
        ELSE IF outcomes[i].error.retryable THEN "retryable" ELSE "fatal"]

\* C21: an execute call that is over and an executeSync call in which fn
\* did the same have invoked fn the same number of times, made the same
\* shouldRetry and onRetry calls with the same arguments, and ended alike,
\* with the same value or the same error; and executeSync takes no time.
C21_SyncEquivalent ==
    /\ [](/\ rhPc = "idle"
          /\ Len(started) > 0
          /\ sync.fed = Fed
          => /\ sync.invoked = Len(started)
             /\ sync.asked = asked
             /\ sync.retried = retried
             /\ sync.result = promise)
    /\ [][(ret'.op = "retrySync") => (now' = now)]_vars

\* execute and executeSync both made two retries, waiting or not, asked
\* shouldRetry twice, and were rejected with the error of the third
\* invocation.
C21_Witness ==
    /\ rhPc = "idle"
    /\ sync.fed = Fed
    /\ sync.invoked = 3
    /\ sync.result = Rejected(Error(3, TRUE))
    /\ shouldRetry = "custom"
    /\ onRetry
    /\ Len(sync.asked) = 2
    /\ Len(slept) = 2

\* Every invocation of fn that is over, in the second call, failed with an
\* error shouldRetry accepts.
PeerFailedSoFar ==
    \A i \in DOMAIN peer.fed :
        peer.fed[i] = "retryable" \/ (peer.fed[i] = "fatal" /\ shouldRetry = "default")

\* C22: of two execute calls on one handler, made one after the other or
\* interleaved, neither changes the locals, the promise or the history of
\* the other, and each has the whole budget and its own numbering: a call
\* whose fn fails every time with accepted errors is rejected when, and only
\* when, fn has failed maxRetries + 1 times in that call; it succeeds with
\* the value of whichever of its invocations succeeds; its onRetry calls
\* are numbered 1, 2, ... with the errors of its own invocations; its delays
\* are min(initialDelay * exponentialBase^i, maxDelay) for i = 0, 1, ...
C22_CallsIndependent ==
    /\ [][/\ (peer' # peer) => UNCHANGED <<rhCall, rhHist>>
          /\ (<<rhCall, rhHist>>' # <<rhCall, rhHist>>) => (peer' = peer)]_vars
    /\ [](/\ PeerFailedSoFar =>
                /\ peer.invoked <= maxRetries + 1
                /\ (peer.promise.state = "rejected")
                      <=> (Len(peer.fed) = maxRetries + 1)
                /\ (peer.promise.state = "rejected")
                      => (peer.promise.n = maxRetries + 1)
          /\ (peer.fed # <<>> /\ peer.fed[Len(peer.fed)] = "value")
                => /\ peer.promise = Fulfilled(Len(peer.fed))
                   /\ peer.invoked = Len(peer.fed)
          /\ \A i \in DOMAIN peer.retried :
                peer.retried[i] = [attempt |-> i, error |-> Error(i, TRUE)]
          /\ \A i \in DOMAIN peer.slept :
                peer.slept[i] = Min(initialDelay * Pow(exponentialBase, i - 1),
                                    maxDelay)
          /\ FailedSoFar(Len(outcomes)) =>
                /\ Len(started) <= maxRetries + 1
                /\ (promise.state = "rejected")
                      <=> (Len(outcomes) = maxRetries + 1)
                /\ (promise.state = "rejected")
                      => (promise.n = maxRetries + 1)
          /\ (outcomes # <<>> /\ outcomes[Len(outcomes)].ok)
                => /\ promise = Fulfilled(Len(outcomes))
                   /\ Len(started) = Len(outcomes)
          /\ \A i \in DOMAIN retried :
                retried[i] = [attempt |-> i, error |-> Error(i, TRUE)]
          /\ \A i \in DOMAIN slept :
                slept[i] = Min(initialDelay * Pow(exponentialBase, i - 1),
                               maxDelay))

\* The first invocation of the second call failed before the first call
\* made its last attempt; the first call has since used up its budget and
\* was rejected, and the second, asleep, has made its onRetry call number
\* 1 and still has its two retries.
C22_Witness ==
    /\ maxRetries = 2
    /\ promise = Rejected(Error(3, TRUE))
    /\ Len(retried) = 2
    /\ peer.pc = "sleeping"
    /\ peer.invoked = 1
    /\ peer.retried = <<[attempt |-> 1, error |-> Error(1, TRUE)]>>
    /\ peer.wakeAt < wakeAt

(* ---------------------- properties of the Database --------------------- *)

\* The step is a call that was rejected with a DatabaseError.
DbRejected == ret'.outcome = "DatabaseError"

\* C26: the rollback that succeeds leaves the tables, and the records of
\* each, that there were when the transaction began; the commit that
\* succeeds leaves the tables and the records as they are.
C26_RollbackRestores ==
    [][/\ (ret' = Ret("rollback", "resolved"))
            => Contents(tables', maps') = atBegin
       /\ (ret' = Ret("commit", "resolved"))
            => Contents(tables', maps') = Contents(tables, maps)]_vars

\* A rollback undid what had been done since beginTransaction and left the
\* table with record 1 in its first version and without record 2, while an
\* insert or update made before it still awaits its delay.
C26_Witness ==
    /\ ret = Ret("rollback", "resolved")
    /\ undone
    /\ "t" \in DOMAIN tables
    /\ maps[tables["t"]] = Put(EmptyMap, 1, 1)
    /\ pending # <<>>
    /\ pending[1].op \in {"insert", "update"}
    /\ pending[1].ref = NoRef

\* C27: an insert call that succeeds puts its record where no record with
\* that id was: it never replaces a record stored, whether by an insert
\* made before it or by one in flight with it; and an insert call made when
\* the id is in the table is rejected and changes nothing.
C27_InsertNeverOverwrites ==
    [][/\ \A i \in DOMAIN pending :
            (/\ pending[i].op = "insert"
             /\ pending[i].ref # NoRef
             /\ pending' = RemoveAt(pending, i)
             /\ ret' = RetN("insert", "resolved", pending[i].id))
                => pending[i].id \notin DOMAIN maps[pending[i].ref]
       /\ (ret'.op = "insert" /\ DbRejected)
            => UNCHANGED <<dbFields, dbEnv>>]_vars

\* C28: beginTransaction is rejected when a transaction is active, commit
\* and rollback when none is, disconnect when a transaction is active or
\* the database is not connected, connect when it is connected; a call
\* that is rejected changes no field and no record; and at most one
\* transaction is open at any time, transactionActive telling whether one
\* is.
C28_Lifecycle ==
    /\ [](openTxns \in {0, 1} /\ (transactionActive <=> openTxns = 1))
    /\ [][/\ (ret'.op = "beginTransaction" /\ transactionActive)
               => DbRejected
          /\ (ret'.op \in {"commit", "rollback"} /\ ~transactionActive)
               => DbRejected
          /\ (ret'.op = "disconnect" /\ (transactionActive \/ ~connected))
               => DbRejected
          /\ (ret'.op = "connect" /\ ret'.outcome # "resolved" /\ connected)
               => DbRejected
          /\ DbRejected
               => UNCHANGED <<dbFields, dbEnv, openTxns>>]_vars

\* disconnect was rejected in a transaction in which a table had been made.
C28_Witness ==
    /\ ret = Ret("disconnect", "DatabaseError")
    /\ transactionActive
    /\ connected
    /\ atBegin = EmptyMap
    /\ DOMAIN tables = {"t"}

(* ----------------------- properties of the Cache ---------------------- *)

\* The keys of the Map c, oldest first.
CacheKeys(c) == [i \in DOMAIN c |-> c[i].key]

\* C29: after any set, setMultiple, getOrSet, delete and get calls the cache
\* holds at most maxSize entries; a set of a new key into a full cache
\* removes the oldest entry and no other, and a set of a key that is present
\* removes nothing.
C29_BoundedFifo ==
    /\ [](Len(cache) <= maxSize)
    /\ [][ret'.op = "set" =>
            LET old == CacheKeys(cache)
                new == CacheKeys(cache')
            IN \/ new = old
               \/ /\ Len(old) < maxSize
                  /\ Len(new) = Len(old) + 1
                  /\ SubSeq(new, 1, Len(old)) = old
               \/ /\ Len(old) = maxSize
                  /\ Len(new) = maxSize
                  /\ SubSeq(new, 1, maxSize - 1) = Tail(old)]_vars

(* -------------------- properties of the EventEmitter ------------------- *)

\* C30: no listener registered with once is invoked more than once by the
\* emit and emitSync calls, emit calls that overlap included, and no emit
\* returns without having invoked a once listener that was registered when
\* it was called.
C30_OnceAtMostOnce ==
    /\ \A l \in ListenerIds : onceCalls[l] <= 1
    /\ ~missed

(* -------------- further properties of the CircuitBreaker --------------- *)

\* The state changes that execute makes.
ExecuteChanges ==
    {<<"CLOSED", "OPEN">>, <<"OPEN", "HALF_OPEN">>,
     <<"HALF_OPEN", "CLOSED">>, <<"HALF_OPEN", "OPEN">>}

\* The step belongs to an execute call: its start, or the settling of its
\* operation, or its timeout.
ExecuteStep == ret'.op \in {"execute", "settle", "timer", "late"}

\* C31: a step of an execute call leaves the state as it is or makes one of
\* the changes CLOSED to OPEN, OPEN to HALF_OPEN, HALF_OPEN to CLOSED and
\* HALF_OPEN to OPEN, whatever calls are in flight; and the notifications of
\* every step form a path from the state before the step to the state after
\* it, so that all notifications together are a path that starts at CLOSED.
C31_Transitions ==
    [][/\ ExecuteStep =>
            /\ state' = state \/ <<state, state'>> \in ExecuteChanges
            /\ \A i \in DOMAIN notes' : notes'[i] \in ExecuteChanges
       /\ state' # state => notes' # <<>>
       /\ notes' # <<>> =>
            /\ notes'[1][1] = state
            /\ notes'[Len(notes')][2] = state'
            /\ \A i \in 1..(Len(notes') - 1) : notes'[i + 1][1] = notes'[i][2]]_vars

\* A call that was in flight when another call opened the breaker has
\* succeeded, and the breaker is still OPEN.
C31_Witness ==
    /\ ret = Ret("settle", "value")
    /\ state = "OPEN"
    /\ openedBy = "failure"


\* C32: between the steps, a CLOSED breaker has counted fewer failures than
\* failureThreshold and no successes, and a HALF_OPEN breaker fewer
\* successes than successThreshold.
C32_CountersBelowThresholds ==
    /\ state = "CLOSED" => failureCount < failureThreshold /\ successCount = 0
    /\ state = "HALF_OPEN" => successCount < successThreshold

\* The breaker is HALF_OPEN again after a forceOpen made while it was
\* HALF_OPEN with a success counted.
C32_Witness ==
    /\ state = "HALF_OPEN"
    /\ successCount = 1
    /\ openedBy = "force"


\* C33: successCount is 0 whenever the breaker enters HALF_OPEN, and a call
\* that succeeds takes the breaker from HALF_OPEN to CLOSED only when at
\* least successThreshold calls have succeeded since it entered HALF_OPEN.
C33_HalfOpenStartsAtZero ==
    [][/\ (state # "HALF_OPEN" /\ state' = "HALF_OPEN") => successCount' = 0
       /\ (state = "HALF_OPEN" /\ state' = "CLOSED" /\ SuccessCompleted)
            => hoSucc' >= successThreshold]_vars


\* C34: while the breaker is HALF_OPEN, no more than successThreshold
\* operations have been invoked since it entered HALF_OPEN.
C34_LimitedTrials ==
    state = "HALF_OPEN" => trials <= successThreshold


(* ---------------- further properties of the RateLimiter ---------------- *)

\* C35: the tokens granted by tryAcquire, acquire and execute since the
\* limiter was constructed are at most maxTokens plus refillRate times the
\* seconds passed since then.
C35_RateBound ==
    granted * TicksPerSecond <= maxTokens * TicksPerSecond + now * refillRate

\* Two callers were suspended in acquire, the timer of startAutoRefill is
\* running, a second has passed, and more tokens have been granted than
\* the bucket holds.
C35_Witness ==
    /\ granted > maxTokens
    /\ intervalId
    /\ now >= TicksPerSecond
    /\ ret.op = "acquire"
    /\ ret.outcome = "granted"


(* -------------- rejections and recovery of the CircuitBreaker ---------- *)

\* C36: a call rejected because the circuit is open changes none of state,
\* failureCount, successCount and nextAttempt, is not passed to onSuccess or
\* onFailure, invokes no operation and makes no onStateChange call.
C36_RejectionHasNoEffect ==
    [][ret' = Ret("execute", "circuitOpen") =>
          /\ UNCHANGED <<state, failureCount, successCount, nextAttempt>>
          /\ UNCHANGED <<applied, invoked, racing>>
          /\ notes' = <<>>]_vars

\* A call has been rejected while the breaker was OPEN with a failure
\* counted and another call in flight.
C36_Witness ==
    /\ ret = Ret("execute", "circuitOpen")
    /\ state = "OPEN"
    /\ failureCount > 0
    /\ racing # <<>>


C38_NoStarvation == BigWaits ~> ~BigWaits


(* -------- properties of the onStateChange callback -------- *)

\* execute called in a breaker whose fields are f: the guard of the rejection.
RejectedWith(f) == f.state = "OPEN" /\ now < f.nextAttempt

\* C39: when onStateChange(from, to) runs, the state is `to`, nextAttempt is
\* now + resetTimeout when to = OPEN and both counters are 0 when
\* to = CLOSED, so that an execute called by an onStateChange(_, OPEN)
\* callback is rejected.
C39_AnnouncedComplete ==
    \A i \in DOMAIN seen :
        /\ seen[i].state = notes[i][2]
        /\ seen[i].state = "OPEN" =>
               /\ seen[i].nextAttempt = now + ResetTimeout
               /\ RejectedWith(seen[i])
        /\ seen[i].state = "CLOSED" =>
               /\ seen[i].failureCount = 0
               /\ seen[i].successCount = 0


(* -------- properties of retry(rateLimiter(circuitBreaker(op))) -------- *)

\* The sum of the delays of the first a sleeps of the handler.
RECURSIVE Backoff(_)
Backoff(a) == IF a = 0 THEN 0 ELSE Backoff(a - 1) + CalculateDelay(a - 1)

\* The hypotheses of the composition claim.
Composed ==
    /\ failureThreshold <= maxRetries
    /\ Backoff(maxRetries) < ResetTimeout * TickMs

\* retry.execute has thrown.
GaveUp == rhPc = "idle" /\ promise.state = "rejected"

\* op was invoked failureThreshold times, the other attempts were rejected
\* by the breaker, every attempt took a token and the error thrown is the
\* error of the last attempt.
AsComposed ==
    /\ invoked = failureThreshold
    /\ nCalls = maxRetries + 1
    /\ granted = maxRetries + 1
    /\ promise = Rejected(Error(maxRetries + 1, TRUE))

====
